---- MODULE Spec2Model ----
(***************************************************************************)
(* A model of the `cov` crate's combined control-flow graph                *)
(* (cov/src/graph.rs): merging parsed GCNO/GCDA files into a Graph,        *)
(* analyzing it (attribute marking and the flow solver) and projecting it  *)
(* to a Report.  Every operation of Graph is a pure operator on a graph    *)
(* value; the actions at the end apply them to the state.                  *)
(***************************************************************************)
EXTENDS Integers, Sequences, FiniteSets, TLC

VARIABLES
    graph,              \* the Graph value owned by the caller
    debug_assertions,   \* the build: cfg!(debug_assertions), which also turns on overflow checks
    last,               \* the last call made on the graph: [op, file]
    ret,                \* what that call returned: [kind, report]
    analyzed,           \* history: analyze() has returned at least once
    fed,                \* history: per function position, the per-arc sums of the ArcCounts fed to it
    merges,             \* history: number of merge() calls made
    failed,             \* history: some merge() returned an error
    repeated,           \* history: the last call merged the file the successful call before it merged
    alt,                \* second Graph value (order comparison only)
    todo,               \* files still to merge into graph (order comparison only)
    todoAlt,            \* files still to merge into alt (order comparison only)
    interner,           \* the Interner owned by the caller
    handed,             \* history: the intern() calls made, each with the symbol it returned
    yielded,            \* what the last iter().collect() gave, if the interner is as it was then
    reader,             \* the Reader opened on a stream
    parsed,             \* what reader.parse() returned: [kind, gcov]
    opened,             \* history: the records, cut and tail the stream was made of
    solver              \* the locals of a running propagate_counts, and what it has set so far

graphVars == <<graph, debug_assertions, last, ret, analyzed, fed, merges, failed, repeated,
               alt, todo, todoAlt, solver>>
ioVars == <<interner, handed, yielded, reader, parsed, opened>>
vars == <<graphVars, ioVars>>

----------------------------------------------------------------------------
(* Bounds of the model *)

\* merge() calls per behaviour
MaxMerges == 3
\* largest single count in an ArcCounts record
MaxCount == 2
\* width of the modelled count word: counts are u64 in the source, 2^CountBits values here
CountBits == 4
\* files per comparison of two merge orders
MaxOrderFiles == 3

----------------------------------------------------------------------------
(* Program constants *)

INVALID_VERSION == 0
VERSION_4_7 == 875575082
UNKNOWN_SYMBOL == 0
\* stand-in for usize::MAX (the largest integer TLC represents)
USIZE_MAX == 2147483647
INVALID_FUNCTION_INDEX == USIZE_MAX

\* Option<T>
None == <<>>
Some(x) == <<x>>
IsSome(o) == o # <<>>
Unwrap(o) == o[1]

\* u64 arithmetic: wrapping in a release build, a panic in a build with overflow checks
U64_MODULUS == 2 ^ CountBits
WrappingAdd(a, b) == (a + b) % U64_MODULUS
WrappingSub(a, b) == (a - b + U64_MODULUS) % U64_MODULUS
AddOverflows(a, b) == a + b >= U64_MODULUS
SubOverflows(a, b) == a < b

\* HashMap / BTreeMap as a set of [key, val] entries with unique keys
MapHas(m, k) == \E e \in m : e.key = k
MapGet(m, k) == (CHOOSE e \in m : e.key = k).val
MapPut(m, k, v) == {e \in m : e.key # k} \cup {[key |-> k, val |-> v]}
MapKeys(m) == {e.key : e \in m}

\* the indices n-1, n-2, .., 0
RECURSIVE Descending(_)
Descending(n) == IF n = 0 THEN <<>> ELSE <<n - 1>> \o Descending(n - 1)
\* the indices 0, 1, .., n-1
Ascending(n) == [i \in 1..n |-> i - 1]

RECURSIVE SeqSum(_)
SeqSum(s) == IF s = <<>> THEN 0 ELSE s[1] + SeqSum(Tail(s))

----------------------------------------------------------------------------
(* Identities and the empty graph *)

GcdaFunctionIdentity_new(file_checksum, ident, function) ==
    [file_checksum |-> file_checksum, ident |-> ident,
     lineno_checksum |-> function.lineno_checksum, cfg_checksum |-> function.cfg_checksum]

GcnoFunctionIdentity_new(function) ==
    [function |-> function, blocks |-> <<>>, arcs |-> <<>>, lines |-> <<>>]

\* Graph::default(): no version, no functions, empty indices, empty DiGraph
Graph_new ==
    [version |-> INVALID_VERSION, functions |-> <<>>, gcno_index |-> {}, gcda_index |-> {},
     nodes |-> <<>>, edges |-> <<>>]

\* FunctionInfo::node: self.nodes[block_index], which panics out of range
HasNode(function, block_index) == block_index < Len(function.nodes)
FunctionInfo_node(function, block_index) == function.nodes[block_index + 1]

FunctionInfo_entry_block(function) == function.nodes[1]

FunctionInfo_exit_block(function, version) ==
    LET index == IF version >= VERSION_4_7 THEN 1 ELSE Len(function.nodes) - 1
    IN function.nodes[index + 1]

\* entry_block() and exit_block(version) index self.nodes without a check
HasEntryExit(function, version) ==
    /\ Len(function.nodes) >= 1
    /\ version >= VERSION_4_7 => Len(function.nodes) >= 2

BlockInfo_is_entry_block(block) == block.block = 0

\* petgraph: the edges leaving (Outgoing) or entering (Incoming) node ni, newest first
EdgesDirected(edges, ni, dir) ==
    SelectSeq(Descending(Len(edges)),
              LAMBDA e : IF dir = "Outgoing" THEN edges[e + 1].source = ni
                                             ELSE edges[e + 1].target = ni)

----------------------------------------------------------------------------
(* Graph construction from a GCNO: add_function, add_blocks, add_arcs, add_lines *)

\* an add_blocks that numbers the nodes of every function from 0
add_blocks_from_zero(g, index, blocks) ==
    LET new == [b \in 1..Len(blocks) |->
                   [index |-> index, block |-> b - 1, attr |-> blocks[b],
                    count |-> None, lines |-> <<>>]]
    IN [graph |-> [g EXCEPT !.nodes = @ \o new],
        nodes |-> [b \in 1..Len(blocks) |-> b - 1]]

\* one node per block, in order, with no count and no lines yet
add_blocks(g, index, blocks) ==
    LET base == Len(g.nodes)
        new == [b \in 1..Len(blocks) |->
                   [index |-> index, block |-> b - 1, attr |-> blocks[b],
                    count |-> None, lines |-> <<>>]]
    IN [graph |-> [g EXCEPT !.nodes = @ \o new],
        nodes |-> [b \in 1..Len(blocks) |-> base + b - 1]]

\* an add_arcs loop that lists every arc, on the tree or not, among the real arcs
RECURSIVE add_arc_list_all_real(_, _, _, _, _)
add_arc_list_all_real(st, index, src_ni, arcs, i) ==
    IF i > Len(arcs) \/ st.panic THEN st
    ELSE LET arc == arcs[i] IN
         IF ~HasNode(st.function, arc.dest_block) THEN [st EXCEPT !.panic = TRUE]
         ELSE LET dest_ni == FunctionInfo_node(st.function, arc.dest_block)
                  is_real_arc == "ON_TREE" \notin arc.flags
                  arc_info == [source |-> src_ni, target |-> dest_ni, index |-> index,
                               arc |-> i - 1,
                               count |-> IF is_real_arc THEN Some(0) ELSE None,
                               attr |-> arc.flags]
                  ei == Len(st.graph.edges)
              IN add_arc_list_all_real(
                     [st EXCEPT !.graph.edges = Append(@, arc_info),
                                !.function.arcs = Append(@, ei)],
                     index, src_ni, arcs, i + 1)

\* the arcs of one Arcs record: st = [graph, function, panic]
RECURSIVE add_arc_list(_, _, _, _, _)
add_arc_list(st, index, src_ni, arcs, i) ==
    IF i > Len(arcs) \/ st.panic THEN st
    ELSE LET arc == arcs[i] IN
         IF ~HasNode(st.function, arc.dest_block) THEN [st EXCEPT !.panic = TRUE]
         ELSE LET dest_ni == FunctionInfo_node(st.function, arc.dest_block)
                  is_real_arc == "ON_TREE" \notin arc.flags
                  arc_info == [source |-> src_ni, target |-> dest_ni, index |-> index,
                               arc |-> i - 1,
                               count |-> IF is_real_arc THEN Some(0) ELSE None,
                               attr |-> arc.flags]
                  ei == Len(st.graph.edges)
              IN add_arc_list(
                     [st EXCEPT !.graph.edges = Append(@, arc_info),
                                !.function.arcs = IF is_real_arc THEN Append(@, ei) ELSE @],
                     index, src_ni, arcs, i + 1)

add_arcs(st, index, arcs) ==
    IF st.panic THEN st
    ELSE IF ~HasNode(st.function, arcs.src_block) THEN [st EXCEPT !.panic = TRUE]
    ELSE LET src_ni == FunctionInfo_node(st.function, arcs.src_block) IN
         IF debug_assertions /\ EdgesDirected(st.graph.edges, src_ni, "Outgoing") # <<>>
         THEN [st EXCEPT !.panic = TRUE]
         ELSE add_arc_list(st, index, src_ni, arcs.arcs, 1)

RECURSIVE add_all_arcs(_, _, _, _)
add_all_arcs(st, index, arcss, i) ==
    IF i > Len(arcss) THEN st ELSE add_all_arcs(add_arcs(st, index, arcss[i]), index, arcss, i + 1)

\* block_number_to_lines: a later Lines record of the same block replaces the earlier one
RECURSIVE block_number_to_lines(_, _, _)
block_number_to_lines(lines, i, m) ==
    IF i > Len(lines) THEN m
    ELSE block_number_to_lines(lines, i + 1, MapPut(m, lines[i].block_number, lines[i].lines))

\* debug_assert_eq!(old_lines, None)
DuplicateLines(lines) ==
    \E i, j \in 1..Len(lines) : i < j /\ lines[i].block_number = lines[j].block_number

\* the last FileName entry and the last LineNumber entry of a Lines list, each replaced
\* by its default when the list has none
LastOf(lines, t, default) ==
    LET at == {i \in 1..Len(lines) : lines[i].t = t}
    IN IF at = {} THEN [t |-> t, v |-> default]
       ELSE lines[CHOOSE i \in at : \A j \in at : j <= i]

inherited_last_line(lines) ==
    <<LastOf(lines, "FileName", UNKNOWN_SYMBOL), LastOf(lines, "LineNumber", 0)>>

\* the lines of block number b: its own Lines record, else what it inherits from the
\* nearest record of a smaller block number, else nothing
block_lines(all_lines, b) ==
    LET below == {k \in MapKeys(all_lines) : k <= b}
    IN IF below = {} THEN <<>>
       ELSE LET block_number == CHOOSE k \in below : \A j \in below : j <= k
                lines == MapGet(all_lines, block_number)
            IN IF block_number = b THEN lines ELSE inherited_last_line(lines)

add_lines(g, function, all_lines) ==
    [g EXCEPT !.nodes =
        [n \in 1..Len(g.nodes) |->
            IF \E k \in 1..Len(function.nodes) : function.nodes[k] = n - 1
            THEN [g.nodes[n] EXCEPT !.lines = block_lines(all_lines, g.nodes[n].block)]
            ELSE g.nodes[n]]]

\* returns [graph, new_index, panic]
add_function(g, fi) ==
    LET new_index == Len(g.functions)
        blocks == add_blocks(g, new_index, fi.blocks)
        function0 == [arcs |-> <<>>, nodes |-> blocks.nodes, source |-> fi.function.source]
        st == add_all_arcs([graph |-> blocks.graph, function |-> function0, panic |-> FALSE],
                           new_index, fi.arcs, 1)
    IN IF st.panic \/ (debug_assertions /\ DuplicateLines(fi.lines))
       THEN [graph |-> g, new_index |-> new_index, panic |-> TRUE]
       ELSE LET g1 == add_lines(st.graph, st.function, block_number_to_lines(fi.lines, 1, {}))
            IN [graph |-> [g1 EXCEPT !.functions = Append(@, st.function)],
                new_index |-> new_index, panic |-> FALSE]

----------------------------------------------------------------------------
(* merge_gcno *)

\* first pass: collect the structural identity of each function; [fis, err]
RECURSIVE collect_fis(_, _, _)
collect_fis(records, i, fis) ==
    IF i > Len(records) THEN [fis |-> fis, err |-> FALSE]
    ELSE LET record == records[i]
             n == Len(fis)
         IN CASE record.tag = "Function" ->
                     collect_fis(records, i + 1,
                         Append(fis, [ident |-> record.ident,
                                      fi |-> GcnoFunctionIdentity_new(record.function)]))
              [] record.tag \in {"Blocks", "Arcs", "Lines"} /\ n = 0 ->
                     [fis |-> fis, err |-> TRUE]
              [] record.tag = "Blocks" ->
                     collect_fis(records, i + 1, [fis EXCEPT ![n].fi.blocks = record.flags])
              [] record.tag = "Arcs" ->
                     collect_fis(records, i + 1,
                         [fis EXCEPT ![n].fi.arcs =
                             Append(@, [src_block |-> record.src_block, arcs |-> record.arcs])])
              [] record.tag = "Lines" ->
                     collect_fis(records, i + 1,
                         [fis EXCEPT ![n].fi.lines =
                             Append(@, [block_number |-> record.block_number,
                                        lines |-> record.lines])])
              [] OTHER -> collect_fis(records, i + 1, fis)

\* a second pass that creates a function for every entry, known or not
RECURSIVE merge_fis_always_add(_, _, _, _)
merge_fis_always_add(g, checksum, fis, i) ==
    IF i > Len(fis) THEN [graph |-> g, ret |-> "Ok"]
    ELSE LET fi == fis[i].fi
             gcda_identity == GcdaFunctionIdentity_new(checksum, fis[i].ident, fi.function)
             added == add_function(g, fi)
         IN IF added.panic THEN [graph |-> g, ret |-> "Panic"]
            ELSE merge_fis_always_add([added.graph EXCEPT
                                          !.gcda_index = MapPut(@, gcda_identity, added.new_index),
                                          !.gcno_index = MapPut(@, fi, added.new_index)],
                                      checksum, fis, i + 1)

\* a second pass that starts the counts of a known function's arcs afresh
RECURSIVE merge_fis_reset(_, _, _, _)
merge_fis_reset(g, checksum, fis, i) ==
    IF i > Len(fis) THEN [graph |-> g, ret |-> "Ok"]
    ELSE LET fi == fis[i].fi
             gcda_identity == GcdaFunctionIdentity_new(checksum, fis[i].ident, fi.function)
         IN IF MapHas(g.gcno_index, fi)
            THEN merge_fis_reset(
                     [g EXCEPT !.gcda_index = MapPut(@, gcda_identity, MapGet(g.gcno_index, fi)),
                               !.edges = [e \in 1..Len(g.edges) |->
                                   IF g.edges[e].index = MapGet(g.gcno_index, fi)
                                      /\ IsSome(g.edges[e].count)
                                   THEN [g.edges[e] EXCEPT !.count = Some(0)]
                                   ELSE g.edges[e]]],
                     checksum, fis, i + 1)
            ELSE LET added == add_function(g, fi) IN
                 IF added.panic THEN [graph |-> g, ret |-> "Panic"]
                 ELSE merge_fis_reset([added.graph EXCEPT
                                          !.gcda_index = MapPut(@, gcda_identity, added.new_index),
                                          !.gcno_index = MapPut(@, fi, added.new_index)],
                                      checksum, fis, i + 1)

\* second pass: one index entry per collected function; [graph, ret]
RECURSIVE merge_fis(_, _, _, _)
merge_fis(g, checksum, fis, i) ==
    IF i > Len(fis) THEN [graph |-> g, ret |-> "Ok"]
    ELSE LET fi == fis[i].fi
             gcda_identity == GcdaFunctionIdentity_new(checksum, fis[i].ident, fi.function)
         IN IF MapHas(g.gcno_index, fi)
            THEN merge_fis([g EXCEPT !.gcda_index =
                                MapPut(@, gcda_identity, MapGet(g.gcno_index, fi))],
                           checksum, fis, i + 1)
            ELSE LET added == add_function(g, fi) IN
                 IF added.panic THEN [graph |-> g, ret |-> "Panic"]
                 ELSE merge_fis([added.graph EXCEPT
                                    !.gcda_index = MapPut(@, gcda_identity, added.new_index),
                                    !.gcno_index = MapPut(@, fi, added.new_index)],
                                checksum, fis, i + 1)

merge_gcno(g, gcno) ==
    LET first == collect_fis(gcno.records, 1, <<>>)
    IN IF first.err THEN [graph |-> g, ret |-> "RecordWithoutFunction"]
       ELSE merge_fis(g, gcno.stamp, first.fis, 1)

----------------------------------------------------------------------------
(* merge_gcda *)

\* a find_function that falls back to the first function
find_function_or_first(g, checksum, ident, function) ==
    LET identity == GcdaFunctionIdentity_new(checksum, ident, function)
    IN [found |-> TRUE,
        index |-> IF MapHas(g.gcda_index, identity) THEN MapGet(g.gcda_index, identity) ELSE 0]

\* [found, index]
find_function(g, checksum, ident, function) ==
    LET identity == GcdaFunctionIdentity_new(checksum, ident, function)
    IN IF MapHas(g.gcda_index, identity)
       THEN [found |-> TRUE, index |-> MapGet(g.gcda_index, identity)]
       ELSE [found |-> FALSE, index |-> INVALID_FUNCTION_INDEX]

\* a zip that stores each new count in place of the sum
RECURSIVE zip_counts_overwrite(_, _, _, _)
zip_counts_overwrite(edges, arcs, counts, i) ==
    IF i > Len(arcs) \/ i > Len(counts) THEN edges
    ELSE zip_counts_overwrite([edges EXCEPT ![arcs[i] + 1].count = Some(counts[i])],
                              arcs, counts, i + 1)

\* adding the counts of one record to the function's real arcs, pairwise in order
RECURSIVE zip_counts(_, _, _, _)
zip_counts(edges, arcs, counts, i) ==
    IF i > Len(arcs) \/ i > Len(counts) THEN edges
    ELSE LET ei == arcs[i]
             count == edges[ei + 1].count
             new == IF IsSome(count) THEN Some(WrappingAdd(Unwrap(count), counts[i]))
                    ELSE Some(counts[i])
         IN zip_counts([edges EXCEPT ![ei + 1].count = new], arcs, counts, i + 1)

\* `*c += new_count` overflows somewhere along the zip
RECURSIVE zip_overflows(_, _, _, _)
zip_overflows(edges, arcs, counts, i) ==
    IF i > Len(arcs) \/ i > Len(counts) THEN FALSE
    ELSE LET count == edges[arcs[i] + 1].count
         IN \/ IsSome(count) /\ AddOverflows(Unwrap(count), counts[i])
            \/ zip_overflows(edges, arcs, counts, i + 1)

\* an add_arc_counts that zips before it compares the lengths
add_arc_counts_zip_first(g, index, counts) ==
    IF index >= Len(g.functions) THEN [graph |-> g, ret |-> "Panic"]
    ELSE LET function == g.functions[index + 1]
             zipped == [g EXCEPT !.edges = zip_counts(@, function.arcs, counts, 1)]
         IN [graph |-> zipped,
             ret |-> IF Len(counts) # Len(function.arcs) THEN "CountsMismatch" ELSE "Ok"]

\* [graph, ret]
add_arc_counts(g, index, counts) ==
    IF index >= Len(g.functions) THEN [graph |-> g, ret |-> "Panic"]
    ELSE LET function == g.functions[index + 1] IN
         IF Len(counts) # Len(function.arcs) THEN [graph |-> g, ret |-> "CountsMismatch"]
         ELSE IF debug_assertions /\ zip_overflows(g.edges, function.arcs, counts, 1)
         THEN [graph |-> g, ret |-> "Panic"]
         ELSE [graph |-> [g EXCEPT !.edges = zip_counts(@, function.arcs, counts, 1)],
               ret |-> "Ok"]

\* the record loop of merge_gcda from record i on, with cur the selected function
RECURSIVE merge_gcda_from(_, _, _, _, _)
merge_gcda_from(g, checksum, records, i, cur) ==
    IF i > Len(records) THEN [graph |-> g, ret |-> "Ok"]
    ELSE LET record == records[i] IN
         CASE record.tag = "Function" ->
                 LET f == find_function(g, checksum, record.ident, record.function)
                 IN IF f.found THEN merge_gcda_from(g, checksum, records, i + 1, f.index)
                    ELSE [graph |-> g, ret |-> "MissingFunction"]
           [] record.tag = "ArcCounts" ->
                 LET r == add_arc_counts(g, cur, record.counts)
                 IN IF r.ret = "Ok" THEN merge_gcda_from(r.graph, checksum, records, i + 1, cur)
                    ELSE r
           [] OTHER -> merge_gcda_from(g, checksum, records, i + 1, cur)

merge_gcda(g, gcda) == merge_gcda_from(g, gcda.stamp, gcda.records, 1, INVALID_FUNCTION_INDEX)

----------------------------------------------------------------------------
(* merge *)

\* a version check that lets every file through
version_accepts_any(g, gcov) == TRUE

\* the version check and adoption at the head of merge
version_accepts(g, gcov) == g.version = INVALID_VERSION \/ g.version = gcov.version

\* [graph, ret]; a panic leaves nothing to observe, the graph is reported as it was
merge(g, gcov) ==
    IF ~version_accepts(g, gcov) THEN [graph |-> g, ret |-> "VersionMismatch"]
    ELSE LET g1 == [g EXCEPT !.version = gcov.version]
             r == IF gcov.ty = "Gcno" THEN merge_gcno(g1, gcov) ELSE merge_gcda(g1, gcov)
         IN IF r.ret = "Panic" THEN [graph |-> g, ret |-> "Panic"] ELSE r

----------------------------------------------------------------------------
(* analyze: attribute marking *)

OutgoingFake(g, ni) ==
    \E e \in 1..Len(g.edges) : g.edges[e].source = ni /\ "FAKE" \in g.edges[e].attr

\* a marking that gives THROW to the fall-through arcs of a call site as well
mark_catch_blocks_fallthrough(g) ==
    LET src_is_entry(e) == BlockInfo_is_entry_block(g.nodes[g.edges[e].source + 1])
        mark_throw(ni) == ~BlockInfo_is_entry_block(g.nodes[ni + 1]) /\ OutgoingFake(g, ni)
        arc_marks(e) ==
            (IF "FAKE" \in g.edges[e].attr
             THEN (IF src_is_entry(e) THEN {"NONLOCAL_RETURN"} ELSE {"CALL_NON_RETURN"})
             ELSE {})
            \cup
            (IF mark_throw(g.edges[e].source) /\ "FAKE" \notin g.edges[e].attr
             THEN {"THROW"} ELSE {})
        block_marks(ni) ==
            (IF mark_throw(ni) THEN {"CALL_SITE"} ELSE {})
            \cup
            (IF \E e \in 1..Len(g.edges) :
                    /\ g.edges[e].target = ni
                    /\ "FAKE" \in g.edges[e].attr
                    /\ src_is_entry(e)
             THEN {"NONLOCAL_RETURN"} ELSE {})
    IN [g EXCEPT !.nodes = [n \in 1..Len(g.nodes) |->
                               [g.nodes[n] EXCEPT !.attr = @ \cup block_marks(n - 1)]],
                 !.edges = [e \in 1..Len(g.edges) |->
                               [g.edges[e] EXCEPT !.attr = @ \cup arc_marks(e)]]]

\* Every FAKE arc leaving an entry block marks itself and its target NONLOCAL_RETURN;
\* every FAKE arc leaving another block marks itself CALL_NON_RETURN and its source
\* CALL_SITE, and that source's arcs that are neither FAKE nor FALLTHROUGH get THROW.
\* (The loop only ORs bits that it never reads, so the marks do not depend on its order.)
mark_catch_blocks(g) ==
    LET src_is_entry(e) == BlockInfo_is_entry_block(g.nodes[g.edges[e].source + 1])
        mark_throw(ni) == ~BlockInfo_is_entry_block(g.nodes[ni + 1]) /\ OutgoingFake(g, ni)
        arc_marks(e) ==
            (IF "FAKE" \in g.edges[e].attr
             THEN (IF src_is_entry(e) THEN {"NONLOCAL_RETURN"} ELSE {"CALL_NON_RETURN"})
             ELSE {})
            \cup
            (IF mark_throw(g.edges[e].source) /\ g.edges[e].attr \cap {"FAKE", "FALLTHROUGH"} = {}
             THEN {"THROW"} ELSE {})
        block_marks(ni) ==
            (IF mark_throw(ni) THEN {"CALL_SITE"} ELSE {})
            \cup
            (IF \E e \in 1..Len(g.edges) :
                    /\ g.edges[e].target = ni
                    /\ "FAKE" \in g.edges[e].attr
                    /\ src_is_entry(e)
             THEN {"NONLOCAL_RETURN"} ELSE {})
    IN [g EXCEPT !.nodes = [n \in 1..Len(g.nodes) |->
                               [g.nodes[n] EXCEPT !.attr = @ \cup block_marks(n - 1)]],
                 !.edges = [e \in 1..Len(g.edges) |->
                               [g.edges[e] EXCEPT !.attr = @ \cup arc_marks(e)]]]

\* the non-FAKE arcs leaving ni, newest first
NonFakeEdges(g, ni) ==
    SelectSeq(EdgesDirected(g.edges, ni, "Outgoing"),
              LAMBDA e : "FAKE" \notin g.edges[e + 1].attr)

\* a marking that takes the newest arc of a block, FAKE or not, for its only arc
mark_unconditional_arcs_any(g) ==
    LET unconditional(e) == EdgesDirected(g.edges, g.edges[e].source, "Outgoing") = <<e - 1>>
    IN [g EXCEPT !.edges = [e \in 1..Len(g.edges) |->
                               IF unconditional(e)
                               THEN [g.edges[e] EXCEPT !.attr = @ \cup {"UNCONDITIONAL"}]
                               ELSE g.edges[e]]]

mark_unconditional_arcs(g) ==
    LET unconditional(e) == NonFakeEdges(g, g.edges[e].source) = <<e - 1>>
        call_return(ni) ==
            \E e \in 1..Len(g.edges) :
                /\ unconditional(e)
                /\ g.edges[e].target = ni
                /\ "FALLTHROUGH" \in g.edges[e].attr
                /\ "CALL_SITE" \in g.nodes[g.edges[e].source + 1].attr
    IN [g EXCEPT !.edges = [e \in 1..Len(g.edges) |->
                               IF unconditional(e)
                               THEN [g.edges[e] EXCEPT !.attr = @ \cup {"UNCONDITIONAL"}]
                               ELSE g.edges[e]],
                 !.nodes = [n \in 1..Len(g.nodes) |->
                               IF call_return(n - 1)
                               THEN [g.nodes[n] EXCEPT !.attr = @ \cup {"CALL_RETURN"}]
                               ELSE g.nodes[n]]]

is_non_exc_edge(arc) == arc.attr \cap {"FAKE", "THROW"} = {}

\* the nodes reachable from the set `seen`, along the arcs is_non_exc_edge admits if
\* `filtered`, along all arcs otherwise
RECURSIVE Reach(_, _, _)
Reach(g, seen, filtered) ==
    LET next == seen \cup {g.edges[e].target : e \in {x \in 1..Len(g.edges) :
                              /\ g.edges[x].source \in seen
                              /\ filtered => is_non_exc_edge(g.edges[x])}}
    IN IF next = seen THEN seen ELSE Reach(g, next, filtered)

\* the nodes `dfs.next(&self.graph)` visits from the stack `seen`: Dfs::empty takes the
\* EdgeFiltered view only to size its visit map, and each step asks the graph handed to
\* next() for the neighbours, which is the whole graph, whatever the arcs' attributes
DfsReach(g, seen) == Reach(g, seen, FALSE)

mark_exceptional_blocks(g) ==
    LET stack == {n - 1 : n \in {x \in 1..Len(g.nodes) : BlockInfo_is_entry_block(g.nodes[x])}}
        non_exc == DfsReach(g, stack)
    IN [g EXCEPT !.nodes = [n \in 1..Len(g.nodes) |->
            LET marked == IF BlockInfo_is_entry_block(g.nodes[n]) THEN g.nodes[n].attr
                          ELSE g.nodes[n].attr \cup {"EXCEPTIONAL"}
            IN [g.nodes[n] EXCEPT !.attr = IF (n - 1) \in non_exc
                                             THEN marked \ {"EXCEPTIONAL"} ELSE marked]]]

----------------------------------------------------------------------------
(* analyze: the flow solver *)

\* the elements of a set of indices, ascending (FixedBitSet::ones)
RECURSIVE Ones(_)
Ones(S) == IF S = {} THEN <<>>
           ELSE LET m == CHOOSE x \in S : \A y \in S : x <= y IN <<m>> \o Ones(S \ {m})

ValidCounts(g, ni, dir) ==
    LET es == SelectSeq(EdgesDirected(g.edges, ni, dir), LAMBDA e : IsSome(g.edges[e + 1].count))
    IN [k \in 1..Len(es) |-> Unwrap(g.edges[es[k] + 1].count)]

InvalidArcs(g, ni, dir) ==
    SelectSeq(EdgesDirected(g.edges, ni, dir), LAMBDA e : ~IsSome(g.edges[e + 1].count))

\* [bs, panic]: the totals of the counted arcs and the numbers of uncounted arcs around
\* each block; entry blocks get usize::MAX uncounted incoming arcs, exit blocks outgoing
create_block_status(g) ==
    LET entries == {FunctionInfo_entry_block(g.functions[f]) : f \in 1..Len(g.functions)}
        exits == {FunctionInfo_exit_block(g.functions[f], g.version) : f \in 1..Len(g.functions)}
        total(ni, dir) == SeqSum(ValidCounts(g, ni, dir))
    IN IF \E f \in 1..Len(g.functions) : ~HasEntryExit(g.functions[f], g.version)
       THEN [bs |-> <<>>, panic |-> TRUE]
       ELSE IF debug_assertions /\ \E n \in 1..Len(g.nodes), dir \in {"Outgoing", "Incoming"} :
                                        total(n - 1, dir) >= U64_MODULUS
       THEN [bs |-> <<>>, panic |-> TRUE]
       ELSE [bs |-> [n \in 1..Len(g.nodes) |->
                       [outgoing_total_count |-> total(n - 1, "Outgoing") % U64_MODULUS,
                        outgoing_invalid_arcs |->
                            IF (n - 1) \in exits THEN USIZE_MAX
                            ELSE Len(InvalidArcs(g, n - 1, "Outgoing")),
                        incoming_total_count |-> total(n - 1, "Incoming") % U64_MODULUS,
                        incoming_invalid_arcs |->
                            IF (n - 1) \in entries THEN USIZE_MAX
                            ELSE Len(InvalidArcs(g, n - 1, "Incoming"))]],
             panic |-> FALSE]

\* the solver's state: [graph, bs, red, green, panic]
process_red_block(st, ni) ==
    LET status == st.bs[ni + 1] IN
    IF status.outgoing_invalid_arcs = 0
    THEN [st EXCEPT !.graph.nodes[ni + 1].count = Some(status.outgoing_total_count),
                    !.green = @ \cup {ni}]
    ELSE IF status.incoming_invalid_arcs = 0
    THEN [st EXCEPT !.graph.nodes[ni + 1].count = Some(status.incoming_total_count),
                    !.green = @ \cup {ni}]
    ELSE st

Opposite(dir) == IF dir = "Outgoing" THEN "Incoming" ELSE "Outgoing"
InvalidOf(status, dir) == IF dir = "Outgoing" THEN status.outgoing_invalid_arcs
                          ELSE status.incoming_invalid_arcs
TotalOf(status, dir) == IF dir = "Outgoing" THEN status.outgoing_total_count
                        ELSE status.incoming_total_count
SetTotals(status, dir, ia, tc) ==
    IF dir = "Outgoing"
    THEN [status EXCEPT !.outgoing_invalid_arcs = ia, !.outgoing_total_count = tc]
    ELSE [status EXCEPT !.incoming_invalid_arcs = ia, !.incoming_total_count = tc]

\* a process_green_block_dest that hands a counted block with one uncounted arc left back
\* to the red set
process_green_block_dest_red(st, dest, arc_count, dir) ==
    LET od == Opposite(dir)
        status == st.bs[dest + 1]
        dest_ia == InvalidOf(status, od) - 1
        dest_tc == TotalOf(status, od)
        count == st.graph.nodes[dest + 1].count
    IN IF debug_assertions /\ AddOverflows(dest_tc, arc_count) THEN [st EXCEPT !.panic = TRUE]
       ELSE LET st1 == [st EXCEPT !.bs[dest + 1] =
                            SetTotals(status, od, dest_ia, WrappingAdd(dest_tc, arc_count))]
            IN IF IsSome(count) /\ dest_ia = 1 THEN [st1 EXCEPT !.red = @ \cup {dest}]
               ELSE IF ~IsSome(count) /\ dest_ia = 0 THEN [st1 EXCEPT !.red = @ \cup {dest}]
               ELSE st1

\* the other end of the arc: its totals on the opposite side take the arc's count
process_green_block_dest(st, dest, arc_count, dir) ==
    LET od == Opposite(dir)
        status == st.bs[dest + 1]
        dest_ia == InvalidOf(status, od) - 1
        dest_tc == TotalOf(status, od)
        count == st.graph.nodes[dest + 1].count
    IN IF debug_assertions /\ AddOverflows(dest_tc, arc_count) THEN [st EXCEPT !.panic = TRUE]
       ELSE LET st1 == [st EXCEPT !.bs[dest + 1] =
                            SetTotals(status, od, dest_ia, WrappingAdd(dest_tc, arc_count))]
            IN IF IsSome(count) /\ dest_ia = 1 THEN [st1 EXCEPT !.green = @ \cup {dest}]
               ELSE IF ~IsSome(count) /\ dest_ia = 0 THEN [st1 EXCEPT !.red = @ \cup {dest}]
               ELSE st1

\* a block with a count and exactly one uncounted arc on one side gives that arc the rest
process_green_block(st, src, dir) ==
    LET status == st.bs[src + 1]
        src_tc == TotalOf(status, dir)
        invalid == InvalidArcs(st.graph, src, dir)
        block_count == st.graph.nodes[src + 1].count
    IN IF InvalidOf(status, dir) # 1 THEN st
       ELSE IF invalid = <<>> \/ ~IsSome(block_count) THEN [st EXCEPT !.panic = TRUE]
       ELSE IF debug_assertions /\ SubOverflows(Unwrap(block_count), src_tc)
       THEN [st EXCEPT !.panic = TRUE]
       ELSE LET ei == invalid[1]
                dest == IF dir = "Outgoing" THEN st.graph.edges[ei + 1].target
                        ELSE st.graph.edges[ei + 1].source
                arc_count == WrappingSub(Unwrap(block_count), src_tc)
                st1 == [st EXCEPT !.graph.edges[ei + 1].count = Some(arc_count),
                                  !.bs[src + 1] = SetTotals(status, dir, 0, Unwrap(block_count))]
            IN process_green_block_dest(st1, dest, arc_count, dir)

RECURSIVE process_reds(_, _, _)
process_reds(st, reds, i) ==
    IF i > Len(reds) THEN st ELSE process_reds(process_red_block(st, reds[i]), reds, i + 1)

RECURSIVE process_greens(_, _, _)
process_greens(st, greens, i) ==
    IF i > Len(greens) \/ st.panic THEN st
    ELSE LET out == process_green_block(st, greens[i], "Outgoing")
             inc == IF out.panic THEN out ELSE process_green_block(out, greens[i], "Incoming")
         IN process_greens(inc, greens, i + 1)

\* one pass of the while loop per call; it ends with the pass that finds nothing to process
RECURSIVE propagate_loop(_)
propagate_loop(st) ==
    IF st.panic \/ (st.red = {} /\ st.green = {}) THEN st
    ELSE LET reds == process_reds(st, Ones(st.red), 1)
             old_green_blocks == Ones(reds.green)
         IN propagate_loop(process_greens([reds EXCEPT !.red = {}, !.green = {}],
                                          old_green_blocks, 1))

\* [graph, panic]
propagate_counts(g) ==
    LET block_status == create_block_status(g) IN
    IF block_status.panic THEN [graph |-> g, panic |-> TRUE]
    ELSE LET st == propagate_loop([graph |-> g, bs |-> block_status.bs,
                                   red |-> {n - 1 : n \in 1..Len(g.nodes)},
                                   green |-> {}, panic |-> FALSE])
         IN [graph |-> st.graph, panic |-> st.panic]

\* the assertions of verify_counts hold
verify_counts(g) ==
    /\ \A n \in 1..Len(g.nodes) : IsSome(g.nodes[n].count)
    /\ \A e \in 1..Len(g.edges) : IsSome(g.edges[e].count)

\* [graph, panic]
analyze(g) ==
    LET marked == mark_exceptional_blocks(mark_unconditional_arcs(mark_catch_blocks(g)))
        solved == propagate_counts(marked)
    IN IF solved.panic \/ (debug_assertions /\ ~verify_counts(solved.graph))
       THEN [graph |-> g, panic |-> TRUE]
       ELSE [graph |-> mark_exceptional_blocks(solved.graph), panic |-> FALSE]

----------------------------------------------------------------------------
(* report *)

\* Report::default()
Report_default == [files |-> {}]
File_default == [lines |-> {}, functions |-> <<>>]
Line_default == [count |-> 0, attr |-> {}, branches |-> <<>>]
Source_default == [name |-> UNKNOWN_SYMBOL, filename |-> UNKNOWN_SYMBOL, line |-> 0]

\* entry(key).or_default()
OrDefault(m, k, default) == IF MapHas(m, k) THEN MapGet(m, k) ELSE default

\* IterLines: the (filename, line) pairs of a block's line entries, in order
RECURSIVE iter_lines_from(_, _, _)
iter_lines_from(lines, i, filename) ==
    IF i > Len(lines) THEN <<>>
    ELSE IF lines[i].t = "FileName" THEN iter_lines_from(lines, i + 1, lines[i].v)
    ELSE <<[filename |-> filename, line |-> lines[i].v]>> \o iter_lines_from(lines, i + 1, filename)

BlockInfo_iter_lines(block) == iter_lines_from(block.lines, 1, UNKNOWN_SYMBOL)

\* `count > Some(0)`
Positive(count) == IsSome(count) /\ Unwrap(count) > 0
UnwrapOr(count, default) == IF IsSome(count) THEN Unwrap(count) ELSE default

\* the counts of the FAKE arcs entering the exit block
FakeIncomingCounts(g, exit_block) ==
    LET es == SelectSeq(EdgesDirected(g.edges, exit_block, "Incoming"),
                        LAMBDA e : "FAKE" \in g.edges[e + 1].attr /\ IsSome(g.edges[e + 1].count))
    IN [k \in 1..Len(es) |-> Unwrap(g.edges[es[k] + 1].count)]

\* the arcs leaving the function's blocks that are neither UNCONDITIONAL nor FAKE
BranchArcs(g, function) ==
    {e \in 1..Len(g.edges) :
        /\ \E k \in 1..Len(function.nodes) : function.nodes[k] = g.edges[e].source
        /\ g.edges[e].attr \cap {"UNCONDITIONAL", "FAKE"} = {}}

\* a report_function that leaves the FAKE arcs in the exit count
report_function_keep_fakes(g, function, r) ==
    IF ~HasEntryExit(function, g.version) THEN [report |-> r, panic |-> TRUE]
    ELSE
    LET source == IF IsSome(function.source) THEN Unwrap(function.source) ELSE Source_default
        entry_block == FunctionInfo_entry_block(function)
        exit_block == FunctionInfo_exit_block(function, g.version)
        blocks_count == Len(function.nodes)
        blocks_executed ==
            Cardinality({k \in 1..Len(function.nodes) :
                            Positive(g.nodes[function.nodes[k] + 1].count)})
        branches == BranchArcs(g, function)
        entry_count == UnwrapOr(g.nodes[entry_block + 1].count, 0)
        exit_total == UnwrapOr(g.nodes[exit_block + 1].count, 0)
        fake_sum == SeqSum(FakeIncomingCounts(g, exit_block))
        report_function_ ==
            [name |-> source.name, line |-> source.line, column |-> 0,
             summary |->
                [blocks_count |-> blocks_count,
                 blocks_executed |-> blocks_executed,
                 entry_count |-> entry_count,
                 exit_count |-> exit_total,
                 branches_count |-> Cardinality(branches),
                 branches_executed |->
                    Cardinality({e \in branches : Positive(g.nodes[g.edges[e].source + 1].count)}),
                 branches_taken |-> Cardinality({e \in branches : Positive(g.edges[e].count)})]]
        file == OrDefault(r.files, source.filename, File_default)
    IN IF debug_assertions /\ (fake_sum >= U64_MODULUS \/ SubOverflows(exit_total, fake_sum))
       THEN [report |-> r, panic |-> TRUE]
       ELSE [report |-> [r EXCEPT !.files =
                            MapPut(@, source.filename,
                                   [file EXCEPT !.functions = Append(@, report_function_)])],
             panic |-> FALSE]

\* [report, panic]
report_function(g, function, r) ==
    IF ~HasEntryExit(function, g.version) THEN [report |-> r, panic |-> TRUE]
    ELSE
    LET source == IF IsSome(function.source) THEN Unwrap(function.source) ELSE Source_default
        entry_block == FunctionInfo_entry_block(function)
        exit_block == FunctionInfo_exit_block(function, g.version)
        blocks_count == Len(function.nodes)
        blocks_executed ==
            Cardinality({k \in 1..Len(function.nodes) :
                            Positive(g.nodes[function.nodes[k] + 1].count)})
        branches == BranchArcs(g, function)
        entry_count == UnwrapOr(g.nodes[entry_block + 1].count, 0)
        exit_total == UnwrapOr(g.nodes[exit_block + 1].count, 0)
        fake_sum == SeqSum(FakeIncomingCounts(g, exit_block))
        report_function_ ==
            [name |-> source.name, line |-> source.line, column |-> 0,
             summary |->
                [blocks_count |-> blocks_count,
                 blocks_executed |-> blocks_executed,
                 entry_count |-> entry_count,
                 exit_count |-> WrappingSub(exit_total, fake_sum % U64_MODULUS),
                 branches_count |-> Cardinality(branches),
                 branches_executed |->
                    Cardinality({e \in branches : Positive(g.nodes[g.edges[e].source + 1].count)}),
                 branches_taken |-> Cardinality({e \in branches : Positive(g.edges[e].count)})]]
        file == OrDefault(r.files, source.filename, File_default)
    IN IF debug_assertions /\ (fake_sum >= U64_MODULUS \/ SubOverflows(exit_total, fake_sum))
       THEN [report |-> r, panic |-> TRUE]
       ELSE [report |-> [r EXCEPT !.files =
                            MapPut(@, source.filename,
                                   [file EXCEPT !.functions = Append(@, report_function_)])],
             panic |-> FALSE]

RECURSIVE report_functions(_, _, _)
report_functions(g, i, st) ==
    IF i > Len(g.functions) \/ st.panic THEN st
    ELSE report_functions(g, i + 1, report_function(g, g.functions[i], st.report))

Max(a, b) == IF a >= b THEN a ELSE b

\* line records that keep the count of the last block seen instead of the largest
RECURSIVE report_block_pairs_last(_, _, _, _)
report_block_pairs_last(block, pairs, i, r) ==
    IF i > Len(pairs) THEN r
    ELSE LET file == OrDefault(r.files, pairs[i].filename, File_default)
             line == OrDefault(file.lines, pairs[i].line, Line_default)
             line1 == [line EXCEPT !.count = UnwrapOr(block.count, 0),
                                   !.attr = @ \cup block.attr]
         IN report_block_pairs_last(block, pairs, i + 1,
                [r EXCEPT !.files = MapPut(@, pairs[i].filename,
                                           [file EXCEPT !.lines = MapPut(@, pairs[i].line, line1)])])

\* the line records of one block: count = max, attr |= block.attr, for each of its pairs
RECURSIVE report_block_pairs(_, _, _, _)
report_block_pairs(block, pairs, i, r) ==
    IF i > Len(pairs) THEN r
    ELSE LET file == OrDefault(r.files, pairs[i].filename, File_default)
             line == OrDefault(file.lines, pairs[i].line, Line_default)
             line1 == [line EXCEPT !.count = Max(@, UnwrapOr(block.count, 0)),
                                   !.attr = @ \cup block.attr]
         IN report_block_pairs(block, pairs, i + 1,
                [r EXCEPT !.files = MapPut(@, pairs[i].filename,
                                           [file EXCEPT !.lines = MapPut(@, pairs[i].line, line1)])])

\* [report, last_line]
report_block(block, r) ==
    LET pairs == BlockInfo_iter_lines(block)
    IN [report |-> report_block_pairs(block, pairs, 1, r),
        last_line |-> IF pairs = <<>> THEN None ELSE Some(pairs[Len(pairs)])]

\* a report_arc that gives every arc a Branch, unconditional or not
report_arc_every(g, ei) ==
    LET arc == g.edges[ei + 1]
        dest == BlockInfo_iter_lines(g.nodes[arc.target + 1])
        first == IF dest = <<>> THEN [filename |-> UNKNOWN_SYMBOL, line |-> 0] ELSE dest[1]
    IN Some([count |-> UnwrapOr(arc.count, 0), attr |-> arc.attr,
             filename |-> first.filename, line |-> first.line, column |-> 0])

\* Option<Branch>
report_arc(g, ei) ==
    LET arc == g.edges[ei + 1]
        dest == BlockInfo_iter_lines(g.nodes[arc.target + 1])
        first == IF dest = <<>> THEN [filename |-> UNKNOWN_SYMBOL, line |-> 0] ELSE dest[1]
    IN IF "UNCONDITIONAL" \in arc.attr /\ "CALL_NON_RETURN" \notin arc.attr THEN None
       ELSE Some([count |-> UnwrapOr(arc.count, 0), attr |-> arc.attr,
                  filename |-> first.filename, line |-> first.line, column |-> 0])

\* the branches of the arcs es (newest first) that are not zero arcs into the exit block
RECURSIVE block_branches(_, _, _, _)
block_branches(g, es, i, exit_block) ==
    IF i > Len(es) THEN <<>>
    ELSE LET arc == g.edges[es[i] + 1]
             rest == block_branches(g, es, i + 1, exit_block)
         IN IF arc.target = exit_block /\ arc.count = Some(0) THEN rest
            ELSE report_arc(g, es[i]) \o rest

RECURSIVE report_blocks(_, _, _)
report_blocks(g, n, st) ==
    IF n > Len(g.nodes) \/ st.panic THEN st
    ELSE LET block == g.nodes[n]
             b == report_block(block, st.report)
         IN IF ~IsSome(b.last_line) THEN report_blocks(g, n + 1, [st EXCEPT !.report = b.report])
            ELSE LET function == g.functions[block.index + 1]
                     last_line == Unwrap(b.last_line)
                     file == MapGet(b.report.files, last_line.filename)
                     line == MapGet(file.lines, last_line.line)
                     branches == block_branches(g, EdgesDirected(g.edges, n - 1, "Outgoing"), 1,
                                                FunctionInfo_exit_block(function, g.version))
                     line1 == [line EXCEPT !.branches = @ \o branches]
                 IN IF ~HasEntryExit(function, g.version) THEN [st EXCEPT !.panic = TRUE]
                    ELSE report_blocks(g, n + 1,
                            [st EXCEPT !.report.files =
                                MapPut(b.report.files, last_line.filename,
                                       [file EXCEPT !.lines = MapPut(@, last_line.line, line1)])])

\* [report, panic]
report(g) ==
    report_blocks(g, 1, report_functions(g, 1, [report |-> Report_default, panic |-> FALSE]))

----------------------------------------------------------------------------
(* Inputs: parsed files (raw::Gcov values), drawn from a small family *)

Versions == {VERSION_4_7 - 1280, VERSION_4_7}    \* "402*" and "407*"
Stamps == {1, 2}                                    \* two objects built from one source

Function(ident, function) == [tag |-> "Function", ident |-> ident, function |-> function]
Blocks(flags) == [tag |-> "Blocks", flags |-> flags]
Arcs(src_block, arcs) == [tag |-> "Arcs", src_block |-> src_block, arcs |-> arcs]
Arc(dest_block, flags) == [dest_block |-> dest_block, flags |-> flags]
Lines(block_number, lines) == [tag |-> "Lines", block_number |-> block_number, lines |-> lines]
ArcCounts(counts) == [tag |-> "ArcCounts", counts |-> counts]
Summary == [tag |-> "Summary"]
FileName(symbol) == [t |-> "FileName", v |-> symbol]
LineNumber(n) == [t |-> "LineNumber", v |-> n]
Gcov(ty, version, stamp, records) ==
    [ty |-> ty, version |-> version, stamp |-> stamp, records |-> records]

\* function metadata as a GCNO carries it (with a source) and as a GCDA does (without)
GcnoMeta(checksum, name, line) ==
    [lineno_checksum |-> checksum, cfg_checksum |-> checksum,
     source |-> Some([name |-> name, filename |-> 1, line |-> line])]
GcdaMeta(checksum) == [lineno_checksum |-> checksum, cfg_checksum |-> checksum, source |-> None]

\* entry -> body -> exit; the arc into the exit block is instrumented
MainRecords ==
    <<Function(1, GcnoMeta(1, 2, 10)),
      Blocks(<<{}, {}, {}>>),
      Arcs(0, <<Arc(2, {"ON_TREE", "FALLTHROUGH"})>>),
      Arcs(2, <<Arc(1, {})>>),
      Lines(2, <<FileName(1), LineNumber(10)>>)>>

\* entry -> cond; cond -> then, cond -> exit, then -> exit; the arcs into cond and into
\* then are instrumented, the two arcs into the exit block are on the spanning tree
BranchRecords ==
    <<Function(2, GcnoMeta(2, 3, 20)),
      Blocks(<<{}, {}, {}, {}>>),
      Arcs(0, <<Arc(2, {"FALLTHROUGH"})>>),
      Arcs(2, <<Arc(3, {}), Arc(1, {"ON_TREE"})>>),
      Arcs(3, <<Arc(1, {"ON_TREE", "FALLTHROUGH"})>>),
      Lines(2, <<FileName(1), LineNumber(20)>>),
      Lines(3, <<FileName(1), LineNumber(21)>>)>>

\* the identity of MainRecords' function on another body: every arc is on the tree
TreeOnlyRecords ==
    <<Function(1, GcnoMeta(1, 2, 10)),
      Blocks(<<{}, {}, {}>>),
      Arcs(0, <<Arc(2, {"ON_TREE", "FALLTHROUGH"})>>),
      Arcs(2, <<Arc(1, {"ON_TREE"})>>),
      Lines(2, <<FileName(1), LineNumber(10)>>)>>

NotesFiles ==
    {Gcov("Gcno", VERSION_4_7, s, MainRecords) : s \in Stamps}
    \cup {Gcov("Gcno", VERSION_4_7, 1, MainRecords \o BranchRecords),
          Gcov("Gcno", VERSION_4_7, 1, TreeOnlyRecords),
          Gcov("Gcno", VERSION_4_7 - 1280, 1, MainRecords),
          Gcov("Gcno", VERSION_4_7, 1, Tail(MainRecords))}

MainCounts == {<<c>> : c \in 1..MaxCount}
BranchCounts == {<<1, c>> : c \in {0, MaxCount}}

DataFiles ==
    {Gcov("Gcda", VERSION_4_7, 1, <<Function(1, GcdaMeta(1)), ArcCounts(cs), Summary>>) :
        cs \in MainCounts}
    \cup {Gcov("Gcda", VERSION_4_7, 2, <<Function(1, GcdaMeta(1)), ArcCounts(<<1>>)>>)}
    \cup {Gcov("Gcda", VERSION_4_7, 1, <<Function(2, GcdaMeta(2)), ArcCounts(cs)>>) :
        cs \in BranchCounts}
    \cup {Gcov("Gcda", VERSION_4_7, 1,
               <<Function(1, GcdaMeta(1)), ArcCounts(<<1>>), Function(3, GcdaMeta(3))>>),
          Gcov("Gcda", VERSION_4_7, 1,
               <<Function(1, GcdaMeta(1)), ArcCounts(<<1>>), ArcCounts(<<1, 1>>)>>),
          Gcov("Gcda", VERSION_4_7, 1, <<ArcCounts(<<1>>)>>),
          Gcov("Gcda", VERSION_4_7 - 1280, 1, <<Function(1, GcdaMeta(1)), ArcCounts(<<1>>)>>)}

Files == NotesFiles \cup DataFiles
NoFile == Gcov("None", INVALID_VERSION, 0, <<>>)

\* a function with a call: entry 0, exit 1, the call site 2 with its fall-through to 3,
\* a landing pad 5 and the FAKE arc of a call that does not return; 4 receives a FAKE
\* arc from the entry; 2 and 3 share line 30, 4 and 5 have no Lines record
CallRecords ==
    <<Function(3, GcnoMeta(3, 4, 30)),
      Blocks(<<{}, {}, {}, {}, {}, {}>>),
      Arcs(0, <<Arc(2, {"ON_TREE", "FALLTHROUGH"}), Arc(4, {"FAKE"})>>),
      Arcs(2, <<Arc(3, {"FALLTHROUGH"}), Arc(5, {}), Arc(1, {"FAKE"})>>),
      Arcs(3, <<Arc(1, {"ON_TREE"})>>),
      Arcs(4, <<Arc(3, {})>>),
      Arcs(5, <<Arc(1, {"ON_TREE"})>>),
      Lines(2, <<FileName(1), LineNumber(30)>>),
      Lines(3, <<FileName(1), LineNumber(30), LineNumber(31)>>)>>

\* counts of CallRecords' real arcs 0->4, 2->3, 2->5, 2->1, 4->3
CallCounts ==
    {<<0, c, 0, 0, 0>> : c \in 1..MaxCount}
    \cup {<<0, 1, 1, 1, 0>>, <<1, 1, 0, 0, 1>>, <<0, 1, 0, 0, 1>>, <<0, 0, 0, 1, 0>>}

FlowFiles ==
    {Gcov("Gcno", VERSION_4_7, 1, CallRecords),
     Gcov("Gcno", VERSION_4_7, 1, BranchRecords),
     Gcov("Gcno", VERSION_4_7 - 1280, 1, CallRecords)}
    \cup {Gcov("Gcda", VERSION_4_7, 1, <<Function(3, GcdaMeta(3)), ArcCounts(cs)>>) :
            cs \in CallCounts}
    \cup {Gcov("Gcda", VERSION_4_7, 1, <<Function(2, GcdaMeta(2)), ArcCounts(cs)>>) :
            cs \in BranchCounts}

----------------------------------------------------------------------------
(* History: the counts fed to each function position *)

\* the arcs of function position p that were inserted without ON_TREE, in insertion order
RealArcsOf(g, p) ==
    SelectSeq(Ascending(Len(g.edges)),
              LAMBDA e : g.edges[e + 1].index = p /\ "ON_TREE" \notin g.edges[e + 1].attr)

\* componentwise sum of two vectors of one length
VecAdd(a, b) == [i \in 1..Len(a) |-> a[i] + b[i]]

\* the records of a GCDA up to its first failing record, as the vectors they add to the
\* function position selected when they are read
RECURSIVE FedWalk(_, _, _, _, _)
FedWalk(f, g, gcda, i, cur) ==
    IF i > Len(gcda.records) THEN f
    ELSE LET record == gcda.records[i] IN
         CASE record.tag = "Function" ->
                 LET identity == GcdaFunctionIdentity_new(gcda.stamp, record.ident, record.function)
                 IN IF MapHas(g.gcda_index, identity)
                    THEN FedWalk(f, g, gcda, i + 1, MapGet(g.gcda_index, identity))
                    ELSE f
           [] record.tag = "ArcCounts" ->
                 IF cur < Len(f) /\ Len(record.counts) = Len(RealArcsOf(g, cur))
                 THEN FedWalk([f EXCEPT ![cur + 1] = VecAdd(@, record.counts)], g, gcda, i + 1, cur)
                 ELSE f
           [] OTHER -> FedWalk(f, g, gcda, i + 1, cur)

\* a function created by a notes merge starts with nothing fed to its real arcs
FedGrow(f, g) ==
    [p \in 1..Len(g.functions) |->
        IF p <= Len(f) THEN f[p] ELSE [k \in 1..Len(RealArcsOf(g, p - 1)) |-> 0]]

----------------------------------------------------------------------------
(* Words and strings of the file format, and the string interner (cov/src/intern.rs) *)

\* a 32-bit word as its two 16-bit halves <<high, low>>
Word(hi, lo) == <<hi, lo>>
Small(n) == Word(0, n)
Min(a, b) == IF a <= b THEN a ELSE b
\* `LET x == v IN F(x)` with v evaluated once, however often F uses x
Bind(v, F(_)) == CHOOSE y \in {F(x) : x \in {v}} : TRUE

\* a string as the words that hold its bytes, the padding NULs left out of the last word
Str(chars) == [i \in 1..Len(chars) |-> Small(chars[i])]
\* "<unknown>": 3c 75 6e 6b, 6e 6f 77 6e, 3e
UNKNOWN_STRING == <<Word(27502, 30012), Word(28279, 28526), Small(62)>>

\* an arena that stores every string it is given, interned before or not
ArenaSet_intern_append(arena, s) == [interner |-> Append(arena, s), symbol |-> Len(arena)]

\* ArenaSet: the arena of interned strings; the symbol of a string is its position
ArenaSet_intern(arena, s) ==
    IF \E i \in 1..Len(arena) : arena[i] = s
    THEN [interner |-> arena, symbol |-> (CHOOSE i \in 1..Len(arena) : arena[i] = s) - 1]
    ELSE [interner |-> Append(arena, s), symbol |-> Len(arena)]
ArenaSet_resolve(arena, symbol) ==
    IF symbol < Len(arena) THEN Some(arena[symbol + 1]) ELSE None
ArenaSet_capacity(arena) == Len(arena)

\* Interner::new(): an arena holding "<unknown>", which gets UNKNOWN_SYMBOL
Interner_new == ArenaSet_intern(<<>>, UNKNOWN_STRING).interner

\* Interner::intern(s)
intern(si, s) == ArenaSet_intern(si, s)

\* Index<Symbol>: resolve(index).expect("valid symbol")
Interner_index(si, index) ==
    LET r == ArenaSet_resolve(si, index)
    IN [panic |-> ~IsSome(r), str |-> IF IsSome(r) THEN Unwrap(r) ELSE <<>>]

\* an iterator that starts at UNKNOWN_SYMBOL
Interner_iter_from_unknown == [current_index |-> UNKNOWN_SYMBOL]

\* Interner::iter(): starts after UNKNOWN_SYMBOL
Interner_iter == [current_index |-> 1]

\* Iter::next()
Iter_next(si, it) ==
    IF it.current_index >= ArenaSet_capacity(si)
    THEN [item |-> None, iter |-> it, panic |-> FALSE]
    ELSE LET symbol == it.current_index
             s == Interner_index(si, symbol)
         IN [item |-> Some(<<symbol, s.str>>),
             iter |-> [it EXCEPT !.current_index = @ + 1],
             panic |-> s.panic]

\* interner.iter().collect::<Vec<_>>()
RECURSIVE Iter_collect(_, _, _)
Iter_collect(si, it, acc) ==
    Bind(Iter_next(si, it), LAMBDA n :
    IF n.panic THEN [panic |-> TRUE, items |-> acc]
    ELSE IF ~IsSome(n.item) THEN [panic |-> FALSE, items |-> acc]
    ELSE Iter_collect(si, n.iter, Append(acc, Unwrap(n.item))))

----------------------------------------------------------------------------
(* The reader (cov/src/reader.rs): parsing a stream of words into records *)

EOF_TAG == Word(0, 0)
FUNCTION_TAG == Word(256, 0)             \* 0x0100_0000
BLOCKS_TAG == Word(321, 0)               \* 0x0141_0000
ARCS_TAG == Word(323, 0)                 \* 0x0143_0000
LINES_TAG == Word(325, 0)                \* 0x0145_0000
COUNTER_BASE_TAG == Word(417, 0)         \* 0x01a1_0000
OBJECT_SUMMARY_TAG == Word(41216, 0)     \* 0xa100_0000
PROGRAM_SUMMARY_TAG == Word(41728, 0)    \* 0xa300_0000

\* bitflags! BlockAttr and ArcAttr: the bits of the u16 and the names this model gives them
BlockAttrBits ==
    {[bit |-> 2, name |-> "UNEXPECTED"], [bit |-> 4096, name |-> "CALL_SITE"],
     [bit |-> 8192, name |-> "CALL_RETURN"], [bit |-> 16384, name |-> "NONLOCAL_RETURN"],
     [bit |-> 32768, name |-> "EXCEPTIONAL"]}
ArcAttrBits ==
    {[bit |-> 1, name |-> "ON_TREE"], [bit |-> 2, name |-> "FAKE"],
     [bit |-> 4, name |-> "FALLTHROUGH"], [bit |-> 16, name |-> "THROW"],
     [bit |-> 32, name |-> "CALL_NON_RETURN"], [bit |-> 64, name |-> "NONLOCAL_RETURN"],
     [bit |-> 128, name |-> "UNCONDITIONAL"]}
\* $allowed_from_gcno of derive_serde_for_attr!
BlockAttrFromGcno == {"UNEXPECTED"}
ArcAttrFromGcno == {"ON_TREE", "FAKE", "FALLTHROUGH"}

HasBit(n, b) == (n \div b) % 2 = 1
\* the bits of a set of flags, as a u16
BitsOf(all, names) == SeqSum([i \in 1..16 |->
    IF \E a \in all : a.bit = 2 ^ (i - 1) /\ a.name \in names THEN 2 ^ (i - 1) ELSE 0])
\* n & !mask on 16 bits
AndNot(n, mask) == SeqSum([i \in 1..16 |->
    IF HasBit(n, 2 ^ (i - 1)) /\ ~HasBit(mask, 2 ^ (i - 1)) THEN 2 ^ (i - 1) ELSE 0])

\* from_bits_truncate: the known flags among the bits
from_bits_truncate(all, bits) == {a.name : a \in {x \in all : HasBit(bits, x.bit)}}

\* from_gcno without its ensure!: every word is taken, truncated to the known flags
from_gcno_unchecked(all, allowed, flags) ==
    [err |-> "None", val |-> from_bits_truncate(all, flags[2])]

\* $flags::from_gcno(flags): the u32 may carry allowed bits only; `flags as u16` is its low half
from_gcno(all, allowed, flags) ==
    IF flags[1] = 0 /\ AndNot(flags[2], BitsOf(all, allowed)) = 0
    THEN [err |-> "None", val |-> from_bits_truncate(all, flags[2])]
    ELSE [err |-> "UnsupportedAttr", val |-> {}]

\* Result<T> of a reading step, with the reader as the step leaves it
Ok(v, r) == [err |-> "None", val |-> v, reader |-> r]
Err(e, r) == [err |-> e, val |-> <<>>, reader |-> r]
Failed(x) == x.err # "None"

\* IsEof: an Io error of kind UnexpectedEof, or ErrorKind::Eof
is_eof(e) == e \in {"UnexpectedEof", "Eof"}

\* A Reader over a stream: `words` are the whole words of the stream in the reader's byte
\* order, `tail` the bytes of an incomplete last word (padded with NULs), `pos` the words
\* consumed, `end` the position at which the innermost Take ends
Reader(ty, version, stamp, words, tail, si) ==
    [ty |-> ty, version |-> version, stamp |-> stamp, words |-> words, tail |-> tail,
     pos |-> 0, end |-> USIZE_MAX, interner |-> si]

\* the position up to which whole words can be read
Avail(r) == Min(r.end, Len(r.words))
\* reader.take(length * 4): a length of 2^16 words or more is beyond every stream modelled
Limit(r, length) == IF length[1] = 0 THEN Min(r.end, r.pos + length[2]) ELSE r.end

\* consume_to_end(&mut self.reader)
consume_to_end(r) == [r EXCEPT !.pos = Avail(r)]

\* read_32(): read_u32 fails with UnexpectedEof when fewer than four bytes are left
read_32(r) ==
    IF r.pos < Avail(r) THEN Ok(r.words[r.pos + 1], [r EXCEPT !.pos = @ + 1])
    ELSE Err("UnexpectedEof", consume_to_end(r))

\* read_64(): the low word comes first
read_64(r) ==
    IF r.pos + 2 <= Avail(r)
    THEN Ok([lo |-> r.words[r.pos + 1], hi |-> r.words[r.pos + 2]], [r EXCEPT !.pos = @ + 2])
    ELSE Err("UnexpectedEof", consume_to_end(r))

\* read_histogram_bitvector(): read_exact of 32 bytes
read_histogram_bitvector(r) ==
    IF r.pos + 8 <= Avail(r)
    THEN Ok(SubSeq(r.words, r.pos + 1, r.pos + 8), [r EXCEPT !.pos = @ + 8])
    ELSE Err("UnexpectedEof", consume_to_end(r))

\* buf.truncate(actual_length): the NULs at the end go
RECURSIVE TrimNul(_)
TrimNul(buf) ==
    IF buf # <<>> /\ buf[Len(buf)] = Word(0, 0) THEN TrimNul(SubSeq(buf, 1, Len(buf) - 1))
    ELSE buf

\* String::from_utf8 on the strings modelled: bytes below 0x80 are text; the streams here
\* hold no byte from 0x80 on, which is taken as no text
IsUtf8(s) ==
    \A i \in 1..Len(s) : \A h \in {s[i][1], s[i][2]} : h \div 256 < 128 /\ h % 256 < 128

\* read_string(): take(length).read_to_end() returns what is there, short or not
read_string(r) ==
    Bind(read_32(r), LAMBDA l :
    IF Failed(l) THEN l
    ELSE LET r1 == l.reader
             limit == Limit(r1, l.val)
             upto == Min(limit, Len(r1.words))
             whole == SubSeq(r1.words, r1.pos + 1, upto)
             buf == IF limit > Len(r1.words) /\ IsSome(r1.tail)
                    THEN Append(whole, Unwrap(r1.tail)) ELSE whole
             r2 == [r1 EXCEPT !.pos = upto]
         IN Bind(TrimNul(buf), LAMBDA string :
            IF ~IsUtf8(string) THEN Err("FromUtf8", r2)
            ELSE Bind(intern(r2.interner, string), LAMBDA i :
                 Ok(i.symbol, [r2 EXCEPT !.interner = i.interner]))))

\* read_source()
read_source(r) ==
    Bind(read_string(r), LAMBDA name :
    IF Failed(name) THEN name
    ELSE Bind(read_string(name.reader), LAMBDA filename :
    IF Failed(filename) THEN filename
    ELSE Bind(read_32(filename.reader), LAMBDA line :
    IF Failed(line) THEN line
    ELSE Ok([name |-> name.val, filename |-> filename.val, line |-> line.val],
            line.reader))))

\* the source of parse_function(): of a notes file, of a data file before 4.7, or none
function_source(r) ==
    IF r.ty = "Gcno"
    THEN Bind(read_source(r), LAMBDA s : IF Failed(s) THEN s ELSE Ok(Some(s.val), s.reader))
    ELSE IF r.version < VERSION_4_7
    THEN Bind(read_string(r), LAMBDA name :
         IF Failed(name) THEN name
         ELSE Ok(Some([name |-> name.val, filename |-> UNKNOWN_SYMBOL, line |-> Small(0)]),
                 name.reader))
    ELSE Ok(None, r)

\* parse_function()
parse_function(r) ==
    Bind(read_32(r), LAMBDA ident :
    IF Failed(ident) THEN ident
    ELSE Bind(read_32(ident.reader), LAMBDA lineno_checksum :
    IF Failed(lineno_checksum) THEN lineno_checksum
    ELSE Bind(IF r.version >= VERSION_4_7 THEN read_32(lineno_checksum.reader)
              ELSE Ok(Small(0), lineno_checksum.reader), LAMBDA cfg_checksum :
    IF Failed(cfg_checksum) THEN cfg_checksum
    ELSE Bind(function_source(cfg_checksum.reader), LAMBDA source :
    IF Failed(source) THEN source
    ELSE Ok(Function(ident.val, [lineno_checksum |-> lineno_checksum.val,
                                 cfg_checksum |-> cfg_checksum.val,
                                 source |-> source.val]),
            consume_to_end(source.reader))))))

\* the fields a record reads one after the other, each 32 or 64 bits wide
RECURSIVE read_fields(_, _, _)
read_fields(r, widths, acc) ==
    IF widths = <<>> THEN Ok(acc, r)
    ELSE Bind(IF widths[1] = 32 THEN read_32(r) ELSE read_64(r), LAMBDA x :
         IF Failed(x) THEN x ELSE read_fields(x.reader, Tail(widths), Append(acc, x.val)))

RECURSIVE until_eof(_, _, _)

\* parse_blocks()
parse_blocks(r) ==
    Bind(until_eof(r, "blocks-flags", <<>>), LAMBDA flags :
    IF Failed(flags) THEN flags ELSE Ok(Blocks(flags.val), flags.reader))

\* parse_arcs()
parse_arcs(r) ==
    Bind(read_32(r), LAMBDA src_block :
    IF Failed(src_block) THEN src_block
    ELSE Bind(until_eof(src_block.reader, "arcs-arcs", <<>>), LAMBDA arcs :
         IF Failed(arcs) THEN arcs ELSE Ok(Arcs(src_block.val, arcs.val), arcs.reader)))

\* parse_lines(): the last entry is popped
parse_lines(r) ==
    Bind(read_32(r), LAMBDA block_number :
    IF Failed(block_number) THEN block_number
    ELSE Bind(until_eof(block_number.reader, "lines-lines", <<>>), LAMBDA lines :
         IF Failed(lines) THEN lines
         ELSE Ok(Lines(block_number.val, SubSeq(lines.val, 1, Len(lines.val) - 1)),
                 lines.reader)))

\* parse_arc_counts()
parse_arc_counts(r) ==
    Bind(until_eof(r, "arc-counts-counts", <<>>), LAMBDA counts :
    IF Failed(counts) THEN counts ELSE Ok(ArcCounts(counts.val), counts.reader))

\* parse_summary(): checksum, num, runs, sum, max, sum_max, then a histogram if there is
\* one; the graph keeps nothing of a summary, and Summary here has no fields
parse_summary(r) ==
    Bind(read_fields(r, <<32, 32, 32, 64, 64, 64>>, <<>>), LAMBDA fields :
    IF Failed(fields) THEN fields
    ELSE Bind(read_histogram_bitvector(fields.reader), LAMBDA bitvector :
    IF Failed(bitvector)
    THEN IF is_eof(bitvector.err) THEN Ok(Summary, bitvector.reader) ELSE bitvector
    ELSE Bind(until_eof(bitvector.reader, "summary-histogram-buckets", <<>>), LAMBDA buckets :
         IF Failed(buckets) THEN buckets ELSE Ok(Summary, buckets.reader))))

\* read_record_header(): the tag, and a reader limited to the declared length
read_record_header(r) ==
    Bind(read_32(r), LAMBDA tag :
    IF Failed(tag) THEN tag
    ELSE Bind(read_32(tag.reader), LAMBDA length :
    IF Failed(length) THEN length
    ELSE Ok(tag.val, [length.reader EXCEPT !.end = Limit(length.reader, length.val)])))

\* the record that a header announces
parse_tagged(tag, subreader) ==
    CASE tag = FUNCTION_TAG -> parse_function(subreader)
      [] tag = BLOCKS_TAG -> parse_blocks(subreader)
      [] tag = ARCS_TAG -> parse_arcs(subreader)
      [] tag = LINES_TAG -> parse_lines(subreader)
      [] tag = COUNTER_BASE_TAG -> parse_arc_counts(subreader)
      [] tag \in {OBJECT_SUMMARY_TAG, PROGRAM_SUMMARY_TAG} -> parse_summary(subreader)
      [] tag = EOF_TAG -> Err("Eof", subreader)
      [] OTHER -> Err("UnknownTag", subreader)

\* the closure parse() repeats: one record; the Take ends with the record
parse_record(r) ==
    Bind(read_record_header(r), LAMBDA header :
    IF Failed(header) THEN header
    ELSE Bind(parse_tagged(header.val, header.reader), LAMBDA x :
         [x EXCEPT !.reader.end = r.end]))

\* the closures handed to until_eof, by the place that hands them
Closure(f, r) ==
    CASE f = "blocks-flags" ->
            Bind(read_32(r), LAMBDA raw_flag :
            IF Failed(raw_flag) THEN raw_flag
            ELSE Bind(from_gcno(BlockAttrBits, BlockAttrFromGcno, raw_flag.val), LAMBDA attr :
                 IF Failed(attr) THEN Err(attr.err, raw_flag.reader)
                 ELSE Ok(attr.val, raw_flag.reader)))
      [] f = "arcs-arcs" ->
            Bind(read_32(r), LAMBDA dest_block :
            IF Failed(dest_block) THEN dest_block
            ELSE Bind(read_32(dest_block.reader), LAMBDA raw_flags :
            IF Failed(raw_flags) THEN raw_flags
            ELSE Bind(from_gcno(ArcAttrBits, ArcAttrFromGcno, raw_flags.val), LAMBDA flags :
                 IF Failed(flags) THEN Err(flags.err, raw_flags.reader)
                 ELSE Ok(Arc(dest_block.val, flags.val), raw_flags.reader))))
      [] f = "lines-lines" ->
            Bind(read_32(r), LAMBDA line_number :
            IF Failed(line_number) THEN line_number
            ELSE IF line_number.val # Word(0, 0)
            THEN Ok(LineNumber(line_number.val), line_number.reader)
            ELSE Bind(read_string(line_number.reader), LAMBDA filename :
                 IF Failed(filename) THEN filename
                 ELSE Ok(FileName(filename.val), filename.reader)))
      [] f = "arc-counts-counts" -> read_64(r)
      [] f = "summary-histogram-buckets" -> read_fields(r, <<32, 64, 64>>, <<>>)
      [] f = "parse" -> parse_record(r)

\* until_eof(f) and UntilEof::next: the values of f up to its first error; an end-of-file
\* error ends the collection, any other error is the result
until_eof(r, f, acc) ==
    Bind(Closure(f, r), LAMBDA x :
    IF Failed(x) THEN IF is_eof(x.err) THEN Ok(acc, x.reader) ELSE x
    ELSE until_eof(x.reader, f, Append(acc, x.val)))

\* Reader::parse()
parse(r) ==
    Bind(until_eof(r, "parse", <<>>), LAMBDA records :
    IF Failed(records) THEN records
    ELSE Ok(Gcov(r.ty, r.version, r.stamp, records.val), records.reader))

----------------------------------------------------------------------------
(* Reading a stream: the caller opens a Reader on a stream and calls parse() once *)

\* records per stream
MaxRecords == 2

\* the file type and version a Reader::new() found in the header
ParseKinds == {<<"Gcno", VERSION_4_7>>, <<"Gcda", VERSION_4_7>>, <<"Gcda", VERSION_4_7 - 1280>>}

\* a record on the wire: its words, the record they denote (strings in the place of
\* symbols), and the kinds of file in which they denote it
Item(words, record, sound) == [words |-> words, record |-> record, sound |-> sound]
Smalls(ns) == [i \in 1..Len(ns) |-> Small(ns[i])]
NoRecord == [tag |-> "None"]

\* Function records: of a notes file, of a data file, and of a data file before 4.7
NotesFunctionItem ==
    Item(<<FUNCTION_TAG>> \o Smalls(<<8, 3, 3, 3, 1, 102, 1, 97, 30>>),
         Function(Small(3), [lineno_checksum |-> Small(3), cfg_checksum |-> Small(3),
                             source |-> Some([name |-> Str(<<102>>), filename |-> Str(<<97>>),
                                              line |-> Small(30)])]),
         {<<"Gcno", VERSION_4_7>>})
DataFunctionItem ==
    Item(<<FUNCTION_TAG>> \o Smalls(<<3, 3, 3, 3>>),
         Function(Small(3), [lineno_checksum |-> Small(3), cfg_checksum |-> Small(3),
                             source |-> None]),
         {<<"Gcda", VERSION_4_7>>})
OldDataFunctionItem ==
    Item(<<FUNCTION_TAG>> \o Smalls(<<4, 3, 3, 1, 102>>),
         Function(Small(3), [lineno_checksum |-> Small(3), cfg_checksum |-> Small(0),
                             source |-> Some([name |-> Str(<<102>>),
                                              filename |-> UNKNOWN_STRING,
                                              line |-> Small(0)])]),
         {<<"Gcda", VERSION_4_7 - 1280>>})
\* three blocks, the last UNEXPECTED
BlocksItem ==
    Item(<<BLOCKS_TAG>> \o Smalls(<<3, 0, 0, 2>>),
         Blocks(<<{}, {}, {"UNEXPECTED"}>>), ParseKinds)
\* block 0 -> 2 (ON_TREE | FALLTHROUGH) and 0 -> 1 (FAKE)
ArcsItem ==
    Item(<<ARCS_TAG>> \o Smalls(<<5, 0, 2, 5, 1, 2>>),
         Arcs(Small(0), <<Arc(Small(2), {"ON_TREE", "FALLTHROUGH"}), Arc(Small(1), {"FAKE"})>>),
         ParseKinds)
\* block 2: file "a", line 30, and the closing null string
LinesItem ==
    Item(<<LINES_TAG>> \o Smalls(<<7, 2, 0, 1, 97, 30, 0, 0>>),
         Lines(Small(2), <<FileName(Str(<<97>>)), LineNumber(Small(30))>>), ParseKinds)
\* one count of 1
ArcCountsItem ==
    Item(<<COUNTER_BASE_TAG>> \o Smalls(<<2, 1, 0>>),
         ArcCounts(<<[lo |-> Small(1), hi |-> Small(0)]>>), ParseKinds)
\* a summary without a histogram
SummaryItem ==
    Item(<<OBJECT_SUMMARY_TAG>> \o Smalls(<<9, 1, 1, 1, 1, 0, 1, 0, 1, 0>>),
         Summary, ParseKinds)
\* the end-of-file record
EofItem == Item(<<EOF_TAG, Small(0)>>, NoRecord, {})
\* a record of AutoFDO (AFDO_FILE_NAMES_TAG, 0xaa00_0000), which parse() does not know
UnknownTagItem == Item(<<Word(43520, 0), Small(0)>>, NoRecord, {})
\* a Function record whose declared length ends inside its fields
ShortFunctionItem == Item(<<FUNCTION_TAG>> \o Smalls(<<1, 3>>), NoRecord, {})
\* block attribute words with a bit that a notes file may not carry: bit 2 (value 4) and
\* CALL_SITE (0x1000)
BadBlocksItems ==
    {Item(<<BLOCKS_TAG>> \o Smalls(<<2, 0>>) \o <<w>>, NoRecord, {}) :
        w \in {Small(4), Small(4096)}}
\* arc attribute words of the same kind: THROW (0x10), and bit 16 next to ON_TREE
BadArcsItems ==
    {Item(<<ARCS_TAG>> \o Smalls(<<3, 0, 1>>) \o <<w>>, NoRecord, {}) :
        w \in {Small(16), Word(1, 1)}}

Items ==
    {NotesFunctionItem, DataFunctionItem, OldDataFunctionItem, BlocksItem, ArcsItem, LinesItem,
     ArcCountsItem, SummaryItem, EofItem, UnknownTagItem, ShortFunctionItem}
    \cup BadBlocksItems \cup BadArcsItems

RECURSIVE Concat(_)
Concat(items) == IF items = <<>> THEN <<>> ELSE items[1].words \o Concat(Tail(items))

\* the streams of a kind of file: up to MaxRecords records, the Function records among
\* them of that kind, cut anywhere in the last record, with or without some bytes of a
\* further word ("a")
ItemsOf(kind) == {i \in Items : i.sound # {} => kind \in i.sound}
ItemLists(kind) == UNION {[1..n -> ItemsOf(kind)] : n \in 0..MaxRecords}
CutsOf(items) ==
    IF items = <<>> THEN {0}
    ELSE (Len(Concat(SubSeq(items, 1, Len(items) - 1))) + 1)..Len(Concat(items))
Tails == {None, Some(Small(97))}

NoReader == Reader("None", INVALID_VERSION, 0, <<>>, None, <<>>)
NotOpened == [items |-> <<>>, cut |-> 0, tail |-> None]

----------------------------------------------------------------------------
(* The caller: one action per call on the graph *)

Call(op, file) == [op |-> op, file |-> file]
Returned(kind, r) == [kind |-> kind, report |-> r]

\* no propagate_counts is running
NoSolver ==
    [phase |-> "idle", bs |-> <<>>, red |-> {}, green |-> {}, queue |-> <<>>,
     start |-> Graph_new, sets |-> <<>>, resolved |-> <<>>]

\* nothing interned, read or iterated yet
IoInit ==
    /\ interner = Interner_new
    /\ handed = <<>>
    /\ yielded = None
    /\ reader = NoReader
    /\ parsed = None
    /\ opened = NotOpened

Init ==
    /\ IoInit
    /\ graph = Graph_new
    /\ debug_assertions \in BOOLEAN
    /\ last = Call("new", NoFile)
    /\ ret = Returned("Ok", Report_default)
    /\ analyzed = FALSE
    /\ fed = <<>>
    /\ merges = 0
    /\ failed = FALSE
    /\ repeated = FALSE
    /\ alt = Graph_new
    /\ todo = {}
    /\ todoAlt = {}
    /\ solver = NoSolver

\* graph.merge(gcov)
Merge(gcov) ==
    /\ ret.kind # "Panic"
    /\ merges < MaxMerges
    /\ LET r == merge(graph, gcov) IN
        /\ graph' = r.graph
        /\ ret' = Returned(r.ret, Report_default)
        /\ fed' = IF r.ret = "Panic" \/ r.ret = "VersionMismatch" THEN fed
                  ELSE IF gcov.ty = "Gcda" THEN FedWalk(fed, graph, gcov, 1, INVALID_FUNCTION_INDEX)
                  ELSE FedGrow(fed, r.graph)
        /\ failed' = (failed \/ r.ret # "Ok")
    /\ last' = Call("merge", gcov)
    /\ merges' = merges + 1
    /\ repeated' = (last = Call("merge", gcov) /\ ret.kind = "Ok")
    /\ UNCHANGED <<debug_assertions, analyzed, alt, todo, todoAlt,
                   interner, handed, yielded, reader, parsed, opened, solver>>

\* graph.analyze()
Analyze ==
    /\ ret.kind # "Panic"
    /\ last.op # "analyze"
    /\ LET r == analyze(graph) IN
        /\ graph' = r.graph
        /\ ret' = Returned(IF r.panic THEN "Panic" ELSE "Ok", Report_default)
        /\ analyzed' = (analyzed \/ ~r.panic)
    /\ last' = Call("analyze", NoFile)
    /\ repeated' = FALSE
    /\ UNCHANGED <<debug_assertions, fed, merges, failed, alt, todo, todoAlt,
                   interner, handed, yielded, reader, parsed, opened, solver>>

\* graph.report()
Report ==
    /\ ret.kind # "Panic"
    /\ last.op # "report"
    /\ LET r == report(graph) IN
        ret' = Returned(IF r.panic THEN "Panic" ELSE "Report", r.report)
    /\ last' = Call("report", NoFile)
    /\ repeated' = FALSE
    /\ UNCHANGED <<graph, debug_assertions, analyzed, fed, merges, failed, alt, todo, todoAlt,
                   interner, handed, yielded, reader, parsed, opened, solver>>

Next ==
    \/ \E gcov \in Files : Merge(gcov)
    \/ Analyze
    \/ Report

Spec == Init /\ [][Next]_vars

\* the same calls on the files of FlowFiles
NextFlow ==
    \/ \E gcov \in FlowFiles : Merge(gcov)
    \/ Analyze
    \/ Report

SpecFlow == Init /\ [][NextFlow]_vars

----------------------------------------------------------------------------
(* Comparing two merge orders of one set of files *)

\* the well-formed files of one version and one stamp, and a notes file of the second
\* function alone
OrderFiles ==
    {f \in Files : f.version = VERSION_4_7 /\ f.stamp = 1 /\ f.records # <<>>
                   /\ f.records[1].tag = "Function"}
    \cup {Gcov("Gcno", VERSION_4_7, 1, BranchRecords)}

\* data file d names a nominal identity that notes file n introduces
Refers(d, n) ==
    /\ d.ty = "Gcda"
    /\ n.ty = "Gcno"
    /\ \E i \in 1..Len(d.records), j \in 1..Len(n.records) :
        /\ d.records[i].tag = "Function"
        /\ n.records[j].tag = "Function"
        /\ GcdaFunctionIdentity_new(d.stamp, d.records[i].ident, d.records[i].function)
             = GcdaFunctionIdentity_new(n.stamp, n.records[j].ident, n.records[j].function)

\* f may be merged next: no notes file that f refers to is still waiting
NotesFirst(f, waiting) == \A n \in waiting : ~Refers(f, n)

InitOrder ==
    /\ IoInit
    /\ graph = Graph_new
    /\ alt = Graph_new
    /\ debug_assertions \in BOOLEAN
    /\ todo \in {F \in SUBSET OrderFiles : Cardinality(F) \in 1..MaxOrderFiles}
    /\ todoAlt = todo
    /\ last = Call("new", NoFile)
    /\ ret = Returned("Ok", Report_default)
    /\ analyzed = FALSE
    /\ fed = <<>>
    /\ merges = 0
    /\ failed = FALSE
    /\ repeated = FALSE
    /\ solver = NoSolver

\* the first order: graph.merge(gcov), kept only while every merge succeeds
OrderMerge(gcov) ==
    /\ gcov \in todo
    /\ NotesFirst(gcov, todo)
    /\ merge(graph, gcov).ret = "Ok"
    /\ graph' = merge(graph, gcov).graph
    /\ todo' = todo \ {gcov}
    /\ last' = Call("merge", gcov)
    /\ UNCHANGED <<debug_assertions, ret, analyzed, fed, merges, failed, repeated, alt, todoAlt,
                   interner, handed, yielded, reader, parsed, opened, solver>>

\* the second order, on the second graph, once the first is through
OrderMergeAlt(gcov) ==
    /\ todo = {}
    /\ gcov \in todoAlt
    /\ NotesFirst(gcov, todoAlt)
    /\ merge(alt, gcov).ret = "Ok"
    /\ alt' = merge(alt, gcov).graph
    /\ todoAlt' = todoAlt \ {gcov}
    /\ last' = Call("merge", gcov)
    /\ UNCHANGED <<graph, debug_assertions, ret, analyzed, fed, merges, failed, repeated, todo,
                   interner, handed, yielded, reader, parsed, opened, solver>>

\* analyze() and report() on both graphs
OrderCompare ==
    /\ todo = {}
    /\ todoAlt = {}
    /\ last.op = "merge"
    /\ LET a == analyze(graph)
           b == analyze(alt)
           ra == report(a.graph)
           rb == report(b.graph)
       IN /\ ret' = Returned(IF a.panic \/ b.panic \/ ra.panic \/ rb.panic THEN "Panic"
                             ELSE "Reports", <<ra.report, rb.report>>)
          /\ graph' = a.graph
          /\ alt' = b.graph
    /\ last' = Call("compare", NoFile)
    /\ analyzed' = TRUE
    /\ UNCHANGED <<debug_assertions, fed, merges, failed, repeated, todo, todoAlt,
                   interner, handed, yielded, reader, parsed, opened, solver>>

NextOrder ==
    \/ \E gcov \in OrderFiles : OrderMerge(gcov)
    \/ \E gcov \in OrderFiles : OrderMergeAlt(gcov)
    \/ OrderCompare

SpecOrder == InitOrder /\ [][NextOrder]_vars

----------------------------------------------------------------------------
(* Analyzing between merges: graph is analyzed early, alt only at the end *)

\* graph.merge(gcov) and alt.merge(gcov), kept only while every merge succeeds
AgainMerge(gcov) ==
    /\ last.op # "compare"
    /\ merges < MaxMerges
    /\ merge(graph, gcov).ret = "Ok"
    /\ merge(alt, gcov).ret = "Ok"
    /\ graph' = merge(graph, gcov).graph
    /\ alt' = merge(alt, gcov).graph
    /\ last' = Call("merge", gcov)
    /\ merges' = merges + 1
    /\ UNCHANGED <<debug_assertions, ret, analyzed, fed, failed, repeated, todo, todoAlt,
                   interner, handed, yielded, reader, parsed, opened, solver>>

\* graph.analyze() before the last merge; alt is left as merged
AgainAnalyze ==
    /\ last.op = "merge"
    /\ merges < MaxMerges
    /\ ~analyze(graph).panic
    /\ graph' = analyze(graph).graph
    /\ last' = Call("analyze", NoFile)
    /\ analyzed' = TRUE
    /\ UNCHANGED <<debug_assertions, ret, fed, merges, failed, repeated, alt, todo, todoAlt,
                   interner, handed, yielded, reader, parsed, opened, solver>>

\* the final analyze() and report() on both graphs
AgainCompare ==
    /\ last.op = "merge"
    /\ analyzed
    /\ \E a \in {analyze(graph)}, b \in {analyze(alt)} :
        \E ra \in {report(a.graph)}, rb \in {report(b.graph)} :
          /\ ret' = Returned(IF a.panic \/ b.panic \/ ra.panic \/ rb.panic THEN "Panic"
                             ELSE "Reports", <<ra.report, rb.report>>)
          /\ graph' = a.graph
          /\ alt' = b.graph
    /\ last' = Call("compare", NoFile)
    /\ UNCHANGED <<debug_assertions, analyzed, fed, merges, failed, repeated, todo, todoAlt,
                   interner, handed, yielded, reader, parsed, opened, solver>>

\* a function whose block 2 has a Lines record that ends with a file name, and whose
\* block 3 has no Lines record
TrailRecords ==
    <<Function(5, GcnoMeta(5, 6, 50)),
      Blocks(<<{}, {}, {}, {}>>),
      Arcs(0, <<Arc(2, {"ON_TREE", "FALLTHROUGH"})>>),
      Arcs(2, <<Arc(3, {})>>),
      Arcs(3, <<Arc(1, {"ON_TREE"})>>),
      Lines(2, <<FileName(1), LineNumber(50), FileName(2)>>)>>

AgainFiles ==
    OrderFiles
    \cup {Gcov("Gcno", VERSION_4_7, 1, TrailRecords), Gcov("Gcno", VERSION_4_7, 1, CallRecords)}

NextAgain ==
    \/ \E gcov \in AgainFiles : AgainMerge(gcov)
    \/ AgainAnalyze
    \/ AgainCompare

SpecAgain == Init /\ [][NextAgain]_vars

----------------------------------------------------------------------------
(* analyze() step by step: one action per block that propagate_counts processes *)

\* a loop: entry 0 -> header 2 is instrumented; header 2 -> body 3 and header 2 -> exit 1
\* are on the spanning tree (with the virtual arc from exit 1 to entry 0); a second arc
\* 2 -> 3 parallel to the tree arc, the back arc 3 -> 2 and the self-loop 3 -> 3
LoopRecords ==
    <<Function(4, GcnoMeta(4, 5, 40)),
      Blocks(<<{}, {}, {}, {}>>),
      Arcs(0, <<Arc(2, {"FALLTHROUGH"})>>),
      Arcs(2, <<Arc(3, {"ON_TREE", "FALLTHROUGH"}), Arc(3, {}), Arc(1, {"ON_TREE"})>>),
      Arcs(3, <<Arc(2, {}), Arc(3, {})>>),
      Lines(2, <<FileName(1), LineNumber(40)>>),
      Lines(3, <<FileName(1), LineNumber(41)>>)>>

\* counts of LoopRecords' real arcs 0 -> 2, 2 -> 3 (parallel), 3 -> 2, 3 -> 3: runs of the
\* loop, and one vector that no run produces (the body is entered once and never left)
LoopCounts == {<<1, 0, 1, 1>>, <<1, 1, 1, 0>>, <<1, 1, 0, 0>>}

\* TreeOnlyRecords has a cycle of uncounted arcs: none of its blocks can be resolved
SolveFiles ==
    {Gcov("Gcno", VERSION_4_7, 1, LoopRecords),
     Gcov("Gcno", VERSION_4_7, 1, TreeOnlyRecords)}
    \cup {Gcov("Gcda", VERSION_4_7, 1, <<Function(4, GcdaMeta(4)), ArcCounts(cs)>>) :
            cs \in LoopCounts}

\* graph.merge(gcov), between two runs of analyze()
SolveMerge(gcov) == solver.phase = "idle" /\ Merge(gcov)

\* analyze() panicked: the graph is reported as it was before the call
SolvePanicked ==
    /\ graph' = IF solver.phase = "idle" THEN graph ELSE solver.start
    /\ ret' = Returned("Panic", Report_default)
    /\ last' = Call("analyze", NoFile)
    /\ solver' = NoSolver
    /\ repeated' = FALSE
    /\ UNCHANGED analyzed

\* graph.analyze() up to the head of the loop of propagate_counts: the attribute marks,
\* create_block_status, and every block in the red set
SolveBegin ==
    /\ solver.phase = "idle"
    /\ ret.kind # "Panic"
    /\ last.op # "analyze"
    /\ \E marked \in {mark_exceptional_blocks(mark_unconditional_arcs(mark_catch_blocks(graph)))} :
        \E block_status \in {create_block_status(marked)} :
          IF block_status.panic THEN SolvePanicked
          ELSE /\ graph' = marked
               /\ solver' = [phase |-> "red", bs |-> block_status.bs, red |-> {}, green |-> {},
                             queue |-> Ascending(Len(marked.nodes)), start |-> graph,
                             sets |-> [n \in 1..Len(marked.nodes) |-> 0],
                             resolved |-> [e \in 1..Len(marked.edges) |-> 0]]
               /\ UNCHANGED <<last, ret, analyzed, repeated>>
    /\ UNCHANGED <<debug_assertions, fed, merges, failed, alt, todo, todoAlt,
                   interner, handed, yielded, reader, parsed, opened>>

\* the solver's state as the process_* operators take it
SolverState ==
    [graph |-> graph, bs |-> solver.bs, red |-> solver.red, green |-> solver.green,
     panic |-> FALSE]

\* `for ni in red_blocks.ones()`: process_red_block on the next red block
SolveRed ==
    /\ solver.phase = "red"
    /\ solver.queue # <<>>
    /\ \E ni \in {Head(solver.queue)} : \E st \in {process_red_block(SolverState, ni)} :
        /\ graph' = st.graph
        /\ solver' = [solver EXCEPT
                        !.green = st.green,
                        !.queue = Tail(@),
                        !.sets[ni + 1] = IF st.graph.nodes[ni + 1].count = graph.nodes[ni + 1].count
                                            /\ ni \notin st.green
                                         THEN @ ELSE @ + 1]
    /\ UNCHANGED <<debug_assertions, last, ret, analyzed, fed, merges, failed, repeated,
                   alt, todo, todoAlt,
                   interner, handed, yielded, reader, parsed, opened>>

\* `red_blocks.clear(); mem::swap(&mut green_blocks, &mut old_green_blocks)`
SolveSwap ==
    /\ solver.phase = "red"
    /\ solver.queue = <<>>
    /\ solver.green # {}
    /\ solver' = [solver EXCEPT !.phase = "green", !.queue = Ones(solver.green),
                                !.red = {}, !.green = {}]
    /\ UNCHANGED <<graph, debug_assertions, last, ret, analyzed, fed, merges, failed, repeated,
                   alt, todo, todoAlt,
                   interner, handed, yielded, reader, parsed, opened>>

\* `for src in old_green_blocks.ones()`: process_green_block on the next green block, in
\* both directions
SolveGreen ==
    /\ solver.phase = "green"
    /\ solver.queue # <<>>
    /\ \E st \in {process_greens(SolverState, <<Head(solver.queue)>>, 1)} :
        IF st.panic THEN SolvePanicked
        ELSE /\ graph' = st.graph
             /\ solver' = [solver EXCEPT
                             !.bs = st.bs, !.red = st.red, !.green = st.green,
                             !.queue = Tail(@),
                             !.resolved = [e \in 1..Len(graph.edges) |->
                                             IF st.graph.edges[e].count = graph.edges[e].count
                                             THEN @[e] ELSE @[e] + 1]]
             /\ UNCHANGED <<last, ret, analyzed, repeated>>
    /\ UNCHANGED <<debug_assertions, fed, merges, failed, alt, todo, todoAlt,
                   interner, handed, yielded, reader, parsed, opened>>

\* `old_green_blocks.clear()` and the next pass of the while loop
SolveAgain ==
    /\ solver.phase = "green"
    /\ solver.queue = <<>>
    /\ solver' = [solver EXCEPT !.phase = "red", !.queue = Ones(solver.red), !.red = {}]
    /\ UNCHANGED <<graph, debug_assertions, last, ret, analyzed, fed, merges, failed, repeated,
                   alt, todo, todoAlt,
                   interner, handed, yielded, reader, parsed, opened>>

\* the pass that found nothing to process ends the loop; verify_counts in a build with
\* debug assertions, mark_exceptional_blocks, and analyze() returns
SolveEnd ==
    /\ solver.phase = "red"
    /\ solver.queue = <<>>
    /\ solver.green = {}
    /\ IF debug_assertions /\ ~verify_counts(graph) THEN SolvePanicked
       ELSE /\ graph' = mark_exceptional_blocks(graph)
            /\ ret' = Returned("Ok", Report_default)
            /\ last' = Call("analyze", NoFile)
            /\ analyzed' = TRUE
            /\ repeated' = FALSE
            /\ solver' = NoSolver
    /\ UNCHANGED <<debug_assertions, fed, merges, failed, alt, todo, todoAlt,
                   interner, handed, yielded, reader, parsed, opened>>

\* the steps that analyze() takes by itself once it is called
SolveStep == SolveRed \/ SolveSwap \/ SolveGreen \/ SolveAgain \/ SolveEnd

NextSolve ==
    \/ \E gcov \in SolveFiles : SolveMerge(gcov)
    \/ SolveBegin
    \/ SolveRed
    \/ SolveSwap
    \/ SolveGreen
    \/ SolveAgain
    \/ SolveEnd

\* analyze() is one synchronous call: once begun it runs until it returns or panics
SpecSolve == Init /\ [][NextSolve]_vars /\ WF_vars(SolveStep)

----------------------------------------------------------------------------
(* The caller of the reader and of the interner *)

\* Reader::new(): a reader on the stream, after its header, sharing the caller's interner
Open(kind, items, cut, tail) ==
    /\ reader = NoReader
    /\ reader' = Reader(kind[1], kind[2], 1, SubSeq(Concat(items), 1, cut), tail, interner)
    /\ opened' = [items |-> items, cut |-> cut, tail |-> tail]
    /\ UNCHANGED <<graphVars, interner, handed, yielded, parsed>>

\* reader.parse()
Parse ==
    /\ reader # NoReader
    /\ parsed = None
    /\ \E x \in {parse(reader)} :
        /\ parsed' = Some([kind |-> IF Failed(x) THEN x.err ELSE "Ok",
                           gcov |-> IF Failed(x) THEN None ELSE Some(x.val)])
        /\ reader' = x.reader
        /\ interner' = x.reader.interner
    /\ UNCHANGED <<graphVars, handed, yielded, opened>>

NextParse ==
    \/ /\ reader = NoReader
       /\ \E kind \in ParseKinds, tail \in Tails :
             \E items \in ItemLists(kind) :
                \E cut \in CutsOf(items) : Open(kind, items, cut, tail)
    \/ Parse

\* parse() has no code that depends on the build
InitParse == Init /\ debug_assertions

SpecParse == InitParse /\ [][NextParse]_vars

\* intern() calls per behaviour
MaxInterns == 4

\* the strings the caller interns: "a", "b", "ab" and "<unknown>"
InternStrings == {Str(<<97>>), Str(<<98>>), Str(<<25185>>), UNKNOWN_STRING}

\* interner.intern(s)
Intern(s) ==
    /\ Len(handed) < MaxInterns
    /\ LET i == intern(interner, s) IN
        /\ interner' = i.interner
        /\ handed' = Append(handed, [string |-> s, symbol |-> i.symbol])
    /\ yielded' = None
    /\ UNCHANGED <<graphVars, reader, parsed, opened>>

\* interner.iter().collect()
Iterate ==
    /\ yielded = None
    /\ yielded' = Some(Iter_collect(interner, Interner_iter, <<>>))
    /\ UNCHANGED <<graphVars, interner, handed, reader, parsed, opened>>

NextIntern ==
    \/ \E s \in InternStrings : Intern(s)
    \/ Iterate

SpecIntern == Init /\ [][NextIntern]_vars

----------------------------------------------------------------------------
(* Properties *)

\* the step is a call of merge() with this step's file in last'.file
MergeStep == last'.op = "merge" /\ merges' = merges + 1

\* a file cut off before its record number `at`
Truncate(gcov, at) == [gcov EXCEPT !.records = SubSeq(@, 1, at - 1)]

\* the first record of a data file that cannot be applied to g, and why, read off the
\* data index and the real arcs of g
RECURSIVE FirstFailure(_, _, _, _)
FirstFailure(g, gcda, i, cur) ==
    IF i > Len(gcda.records) THEN [at |-> 0, why |-> "None"]
    ELSE LET record == gcda.records[i] IN
         CASE record.tag = "Function" ->
                 LET identity == GcdaFunctionIdentity_new(gcda.stamp, record.ident, record.function)
                 IN IF MapHas(g.gcda_index, identity)
                    THEN FirstFailure(g, gcda, i + 1, MapGet(g.gcda_index, identity))
                    ELSE [at |-> i, why |-> "MissingFunction"]
           [] record.tag = "ArcCounts" ->
                 IF cur >= Len(g.functions) THEN [at |-> i, why |-> "NoFunction"]
                 ELSE IF Len(record.counts) # Len(RealArcsOf(g, cur))
                 THEN [at |-> i, why |-> "CountsMismatch"]
                 ELSE FirstFailure(g, gcda, i + 1, cur)
           [] OTHER -> FirstFailure(g, gcda, i + 1, cur)

\* the data file of this step passes the version check and first fails for `why`
DataFailsFor(why) ==
    /\ MergeStep
    /\ last'.file.ty = "Gcda"
    /\ graph.version \in {INVALID_VERSION, last'.file.version}
    /\ FirstFailure(graph, last'.file, 1, INVALID_FUNCTION_INDEX).why = why

\* the graph after the records of this step's file that precede the first failing one
BeforeFailure ==
    merge(graph, Truncate(last'.file,
                          FirstFailure(graph, last'.file, 1, INVALID_FUNCTION_INDEX).at))

AllCountsKnown(g) ==
    /\ \A n \in 1..Len(g.nodes) : IsSome(g.nodes[n].count)
    /\ \A e \in 1..Len(g.edges) : IsSome(g.edges[e].count)

\* C1: after analyze() returns on a graph built by successful merges only, every block
\* and every arc has a count.
C1_AnalyzeLeavesNoCountAbsent ==
    (last.op = "analyze" /\ ret.kind = "Ok" /\ ~failed) => AllCountsKnown(graph)

\* C2: the i-th real arc of every function, in insertion order, holds the sum of the
\* i-th entries of the ArcCounts records applied to that function, and until analyze()
\* runs the arcs inserted with ON_TREE hold no count.
C2_CountsAccumulatePositionally ==
    ret.kind # "Panic" =>
        /\ Len(fed) = Len(graph.functions)
        /\ \A p \in 1..Len(graph.functions) :
            LET real == RealArcsOf(graph, p - 1) IN
            /\ Len(fed[p]) = Len(real)
            /\ \A i \in 1..Len(real) : graph.edges[real[i] + 1].count = Some(fed[p][i])
        /\ ~analyzed =>
            \A e \in 1..Len(graph.edges) :
                "ON_TREE" \in graph.edges[e].attr => graph.edges[e].count = None

\* two data merges or more have added to one arc, next to a tree arc without a count
C2_Witness ==
    /\ ret.kind = "Ok"
    /\ last.op = "merge"
    /\ ~analyzed
    /\ \E p \in 1..Len(fed) : \E i \in 1..Len(fed[p]) : fed[p][i] > MaxCount
    /\ \E e \in 1..Len(graph.edges) : graph.edges[e].count = None

\* C3 as stated: a data merge that fails with MissingFunction leaves the graph as it was.
C3_MissingFunctionLeavesGraph ==
    [][(MergeStep /\ ret'.kind = "MissingFunction") => graph' = graph]_vars

\* C3 amended: a data file whose first inapplicable record is a Function record of an
\* unknown nominal identity fails with MissingFunction; functions, nodes, both indices
\* and the arcs' structure stay, the version is the file's, and the counts are those
\* after the records before that Function record.
C3_MissingFunctionKeepsPrefix ==
    [][DataFailsFor("MissingFunction") =>
          /\ ret'.kind = "MissingFunction"
          /\ graph' = BeforeFailure.graph
          /\ graph'.version = last'.file.version
          /\ graph'.functions = graph.functions
          /\ graph'.nodes = graph.nodes
          /\ graph'.gcno_index = graph.gcno_index
          /\ graph'.gcda_index = graph.gcda_index
          /\ Len(graph'.edges) = Len(graph.edges)
          /\ \A e \in 1..Len(graph.edges) :
                [graph'.edges[e] EXCEPT !.count = None] = [graph.edges[e] EXCEPT !.count = None]]_vars

\* the second call, a data merge, failed with MissingFunction after it had added counts
C3_Witness ==
    /\ last.op = "merge"
    /\ ret.kind = "MissingFunction"
    /\ merges = 2
    /\ \E p \in 1..Len(fed) : \E i \in 1..Len(fed[p]) : fed[p][i] > 0

\* C4: a merge into a graph without a version adopts the file's version; a merge of a
\* file of another version than the graph's fails with VersionMismatch and changes
\* nothing of the graph.
C4_VersionMismatchLeavesGraph ==
    [][MergeStep =>
          /\ (graph.version = INVALID_VERSION /\ ret'.kind # "Panic")
                => graph'.version = last'.file.version
          /\ (graph.version \notin {INVALID_VERSION, last'.file.version})
                => (ret'.kind = "VersionMismatch" /\ graph' = graph)]_vars

\* a file of another version was refused by a graph that holds functions
C4_Witness ==
    /\ last.op = "merge"
    /\ ret.kind = "VersionMismatch"
    /\ graph.version # last.file.version
    /\ Len(graph.functions) > 0

\* C5: a data file whose first inapplicable record is an ArcCounts record of the wrong
\* length fails with CountsMismatch, and the graph is the one after the records before
\* it, which all applied.
C5_CountsMismatchKeepsPrefix ==
    [][DataFailsFor("CountsMismatch") =>
          /\ ret'.kind = "CountsMismatch"
          /\ BeforeFailure.ret = "Ok"
          /\ graph' = BeforeFailure.graph]_vars

\* the second call, a data merge, failed with CountsMismatch after it had added counts
C5_Witness ==
    /\ last.op = "merge"
    /\ ret.kind = "CountsMismatch"
    /\ merges = 2
    /\ \E p \in 1..Len(fed) : \E i \in 1..Len(fed[p]) : fed[p][i] > 0

NamesIndexed(g, gcno) ==
    \E i \in 1..Len(gcno.records) :
        /\ gcno.records[i].tag = "Function"
        /\ GcdaFunctionIdentity_new(gcno.stamp, gcno.records[i].ident, gcno.records[i].function)
             \in MapKeys(g.gcda_index)

\* C7: a notes merge that inserts a nominal identity the data index already holds
\* returns DuplicatedFunction.
C7_DuplicatedFunctionReturned ==
    [][(MergeStep /\ last'.file.ty = "Gcno"
          /\ graph.version = last'.file.version
          /\ ~collect_fis(last'.file.records, 1, <<>>).err
          /\ NamesIndexed(graph, last'.file))
       => ret'.kind = "DuplicatedFunction"]_vars

\* C8: two orders of merging one set of files, each with the notes before the data
\* that refer to them, give equal reports after analyze() and report().
C8_ReportIndependentOfOrder ==
    (last.op = "compare" /\ ret.kind = "Reports") => ret.report[1] = ret.report[2]

\* C9: an entry of the notes index or of the data index keeps its function position
\* through every later merge.
C9_IndexEntriesPersist ==
    [][(MergeStep /\ ret'.kind # "Panic") =>
          /\ graph.gcno_index \subseteq graph'.gcno_index
          /\ graph.gcda_index \subseteq graph'.gcda_index]_vars

\* C10: report() on a graph that analyze() never ran on is the empty report.
C10_ReportEmptyWithoutAnalyze ==
    (last.op = "report" /\ ret.kind = "Report" /\ ~analyzed) => ret.report = Report_default

\* block carries the pair: its list has the line number, after the file name as the
\* last file name before it (the unknown symbol if there is none)
Carries(block, filename, line) ==
    \E k \in 1..Len(block.lines) :
        /\ block.lines[k] = LineNumber(line)
        /\ LET names == {j \in 1..(k - 1) : block.lines[j].t = "FileName"}
           IN IF names = {} THEN filename = UNKNOWN_SYMBOL
              ELSE filename = block.lines[CHOOSE j \in names : \A i \in names : i <= j].v

Carriers(g, filename, line) == {n \in 1..Len(g.nodes) : Carries(g.nodes[n], filename, line)}

\* the count a block shows in a report
ShownCount(block) == IF block.count = None THEN 0 ELSE block.count[1]

\* C11: every line of a report has the largest count among the blocks that carry its
\* (file, line) pair and the union of those blocks' attributes, and every pair that a
\* block carries is a line of the report.
C11_LineIsMaxOfItsBlocks ==
    (last.op = "report" /\ ret.kind = "Report") =>
        /\ \A f \in ret.report.files : \A l \in f.val.lines :
            LET on == Carriers(graph, f.key, l.key) IN
            /\ on # {}
            /\ \E n \in on : l.val.count = ShownCount(graph.nodes[n])
            /\ \A n \in on : l.val.count >= ShownCount(graph.nodes[n])
            /\ l.val.attr = UNION {graph.nodes[n].attr : n \in on}
        /\ \A n \in 1..Len(graph.nodes) : \A k \in 1..Len(graph.nodes[n].lines) :
            graph.nodes[n].lines[k].t = "LineNumber" =>
                \E f \in ret.report.files : \E l \in f.val.lines :
                    Carries(graph.nodes[n], f.key, l.key) /\ l.key = graph.nodes[n].lines[k].v

\* a reported line is carried by two blocks of different counts, the later one smaller
C11_Witness ==
    /\ last.op = "report"
    /\ ret.kind = "Report"
    /\ analyzed
    /\ \E f \in ret.report.files : \E l \in f.val.lines :
        \E m, n \in Carriers(graph, f.key, l.key) :
            /\ m < n
            /\ ShownCount(graph.nodes[m]) > ShownCount(graph.nodes[n])
            /\ l.val.count = ShownCount(graph.nodes[m])

\* the count an arc shows in a report
ShownArc(g, e) == IF g.edges[e].count = None THEN 0 ELSE g.edges[e].count[1]

\* the sum of the shown counts of a set of arcs
RECURSIVE SumOver(_, _)
SumOver(g, E) == IF E = {} THEN 0
                 ELSE LET e == CHOOSE x \in E : TRUE
                      IN ShownArc(g, e) + SumOver(g, E \ {e})

ArcsInto(g, ni) == {e \in 1..Len(g.edges) : g.edges[e].target = ni}
ArcsOutOf(g, ni) == {e \in 1..Len(g.edges) : g.edges[e].source = ni}
FakeInto(g, ni) == {e \in ArcsInto(g, ni) : "FAKE" \in g.edges[e].attr}

\* the exit block of function position p: node 1 from version 4.7 on, the last node before
ExitOf(g, p) == IF g.version >= VERSION_4_7 THEN g.functions[p].nodes[2]
                ELSE g.functions[p].nodes[Len(g.functions[p].nodes)]

\* the source of function position p as the report shows it
ShownSource(g, p) ==
    IF g.functions[p].source = None THEN Source_default ELSE g.functions[p].source[1]

\* the entry of function position p in the report: the functions of a file are listed
\* in the order of their positions
ReportedFunction(r, g, p) ==
    LET before == {q \in 1..(p - 1) : ShownSource(g, q).filename = ShownSource(g, p).filename}
    IN (CHOOSE f \in r.files : f.key = ShownSource(g, p).filename).val.functions[
            Cardinality(before) + 1]

\* the counts around every block of function position p but its entry and exit add up
Balanced(g, p) ==
    \A k \in 2..Len(g.functions[p].nodes) :
        LET ni == g.functions[p].nodes[k] IN
        ni # ExitOf(g, p) => SumOver(g, ArcsInto(g, ni)) = SumOver(g, ArcsOutOf(g, ni))

NonFakeSiblings(g, e) ==
    {x \in ArcsOutOf(g, g.edges[e].source) : "FAKE" \notin g.edges[x].attr}

\* C13: after analyze(), a non-FAKE arc carries UNCONDITIONAL if and only if it is the
\* only non-FAKE arc leaving its source block, and no FAKE arc carries UNCONDITIONAL.
C13_UnconditionalIffOnlyArc ==
    (analyzed /\ last.op = "analyze" /\ ret.kind = "Ok") =>
        \A e \in 1..Len(graph.edges) :
            ("UNCONDITIONAL" \in graph.edges[e].attr)
                <=> ("FAKE" \notin graph.edges[e].attr /\ NonFakeSiblings(graph, e) = {e})

\* an analyzed graph holds an arc that is unconditional next to a FAKE arc of the same
\* block, and two non-FAKE arcs of one block that are not
C13_Witness ==
    /\ analyzed
    /\ last.op = "analyze"
    /\ ret.kind = "Ok"
    /\ \E e, x \in 1..Len(graph.edges) :
        /\ graph.edges[e].source = graph.edges[x].source
        /\ "UNCONDITIONAL" \in graph.edges[e].attr
        /\ "FAKE" \in graph.edges[x].attr
    /\ \E e, x \in 1..Len(graph.edges) :
        /\ e # x
        /\ graph.edges[e].source = graph.edges[x].source
        /\ "FAKE" \notin graph.edges[e].attr
        /\ "FAKE" \notin graph.edges[x].attr
        /\ "UNCONDITIONAL" \notin graph.edges[e].attr

\* the entry block of the function that node n belongs to
EntryOf(g, n) == g.functions[g.nodes[n + 1].index + 1].nodes[1]

\* C14: after analyze(), a block carries EXCEPTIONAL if and only if no path of arcs
\* that have neither FAKE nor THROW leads to it from its function's entry block; entry
\* blocks never carry EXCEPTIONAL.
C14_ExceptionalIffUnreachable ==
    (analyzed /\ last.op = "analyze" /\ ret.kind = "Ok") =>
        \A n \in 1..Len(graph.nodes) :
            ("EXCEPTIONAL" \in graph.nodes[n].attr)
                <=> ((n - 1) \notin Reach(graph, {EntryOf(graph, n - 1)}, TRUE))

\* the blocks of function position p other than its entry and its exit
InnerBlocks(g, p) ==
    {g.functions[p].nodes[k] : k \in 2..Len(g.functions[p].nodes)} \ {ExitOf(g, p)}

\* C15: in a function's summary blocks_count is the number of the function's blocks
\* other than the entry and exit blocks, and blocks_executed the number of those whose
\* count is greater than 0.
C15_BlocksCountExcludesEntryExit ==
    (last.op = "report" /\ ret.kind = "Report") =>
        \A p \in 1..Len(graph.functions) :
            LET summary == ReportedFunction(ret.report, graph, p).summary IN
            /\ summary.blocks_count = Cardinality(InnerBlocks(graph, p))
            /\ summary.blocks_executed
                 = Cardinality({ni \in InnerBlocks(graph, p) : ShownCount(graph.nodes[ni + 1]) > 0})

----------------------------------------------------------------------------
(* The reader: what parse() returned, against the stream it was opened on *)

ParsedKind == Unwrap(parsed).kind
ParsedRecords == Unwrap(Unwrap(parsed).gcov).records
OpenedKind == <<reader.ty, reader.version>>

\* record k of the stream is whole: only the last one can be cut
Complete(k) == k < Len(opened.items) \/ opened.cut = Len(Concat(opened.items))
\* the first k records of the stream are whole, and records of this kind of file
SoundUpTo(k) == \A j \in 1..k : OpenedKind \in opened.items[j].sound /\ Complete(j)

\* a block attribute word with a bit other than UNEXPECTED (2), an arc attribute word with a
\* bit other than ON_TREE (1), FAKE (2) and FALLTHROUGH (4)
BadBlockWord(w) == w[1] # 0 \/ AndNot(w[2], 2) # 0
BadArcWord(w) == w[1] # 0 \/ AndNot(w[2], 1 + 2 + 4) # 0
\* record k is a Blocks or an Arcs record that holds such a word where an attribute goes
HasBadAttr(k) ==
    LET words == opened.items[k].words
    IN \/ /\ words[1] = BLOCKS_TAG
          /\ \E i \in 3..Len(words) : BadBlockWord(words[i])
       \/ /\ words[1] = ARCS_TAG
          /\ \E i \in 5..Len(words) : i % 2 = 1 /\ BadArcWord(words[i])
\* parse() comes to read such a word: the records before its record are sound
ReadsBadAttr ==
    \E k \in 1..Len(opened.items) : SoundUpTo(k - 1) /\ Complete(k) /\ HasBadAttr(k)

\* C16: when parse() reads a block attribute word with a bit other than UNEXPECTED, or an
\* arc attribute word with a bit other than ON_TREE, FAKE and FALLTHROUGH, it fails with
\* UnsupportedAttr; and the records of a successful parse() carry no other block or arc
\* attribute than those.
C16_AttrsValidatedOnParse ==
    parsed # None =>
        /\ ReadsBadAttr => ParsedKind = "UnsupportedAttr"
        /\ ParsedKind = "Ok" =>
              \A i \in 1..Len(ParsedRecords) :
                 LET record == ParsedRecords[i] IN
                 /\ record.tag = "Blocks" =>
                       \A b \in 1..Len(record.flags) : record.flags[b] \subseteq {"UNEXPECTED"}
                 /\ record.tag = "Arcs" =>
                       \A a \in 1..Len(record.arcs) :
                          record.arcs[a].flags \subseteq {"ON_TREE", "FAKE", "FALLTHROUGH"}

\* parse() has failed on an attribute word after a sound record
C16_Witness ==
    /\ parsed # None
    /\ ReadsBadAttr
    /\ Len(opened.items) = 2
    /\ ~HasBadAttr(1)
    /\ ParsedKind = "UnsupportedAttr"

\* a record with the strings its symbols stand for
NameOf(si, symbol) == Interner_index(si, symbol).str
Named(si, record) ==
    CASE record.tag = "Function" /\ IsSome(record.function.source) ->
            [record EXCEPT !.function.source =
                Some([name |-> NameOf(si, Unwrap(@).name),
                      filename |-> NameOf(si, Unwrap(@).filename),
                      line |-> Unwrap(@).line])]
      [] record.tag = "Lines" ->
            [record EXCEPT !.lines =
                [i \in 1..Len(@) |-> IF @[i].t = "FileName" THEN FileName(NameOf(si, @[i].v))
                                     ELSE @[i]]]
      [] OTHER -> record
\* parse() returned the first k records of the stream, in order
ReturnedFirst(k) ==
    /\ ParsedKind = "Ok"
    /\ Len(ParsedRecords) = k
    /\ \A j \in 1..k : Named(interner, ParsedRecords[j]) = opened.items[j].record

\* the stream ends where its last record ends
EndsAtBoundary == SoundUpTo(Len(opened.items)) /\ opened.tail = None
\* record k starts with the tag 0, or with a tag that parse() does not know, and the
\* records before it are sound
TagZeroAt(k) == SoundUpTo(k - 1) /\ opened.items[k].words[1] = EOF_TAG
UnknownTagAt(k) ==
    /\ SoundUpTo(k - 1)
    /\ opened.items[k].words[1] \notin
          {EOF_TAG, FUNCTION_TAG, BLOCKS_TAG, ARCS_TAG, LINES_TAG, COUNTER_BASE_TAG,
           OBJECT_SUMMARY_TAG, PROGRAM_SUMMARY_TAG}

\* C17: parse() returns a record list exactly when the stream ends at a record boundary or
\* a tag 0 is read at a record boundary, and the list then holds all records before that
\* point in order; a nonzero tag that is not recognized, read at a record boundary, makes
\* parse() fail with UnknownTag and return no list.
C17_LoopEndsAtBoundaryOnly ==
    parsed # None =>
        /\ ParsedKind = "Ok" <=>
              (EndsAtBoundary \/ \E k \in 1..Len(opened.items) : TagZeroAt(k))
        /\ EndsAtBoundary => ReturnedFirst(Len(opened.items))
        /\ \A k \in 1..Len(opened.items) : TagZeroAt(k) => ReturnedFirst(k - 1)
        /\ \A k \in 1..Len(opened.items) :
              UnknownTagAt(k) => ParsedKind = "UnknownTag" /\ Unwrap(parsed).gcov = None

\* the stream ends inside its last record, after the tag, after the length or inside the
\* payload, and that record is reached and is not the end-of-file record
EndsMidRecord ==
    LET n == Len(opened.items)
    IN /\ n > 0
       /\ SoundUpTo(n - 1)
       /\ ~Complete(n)
       /\ opened.items[n].words[1] # EOF_TAG

\* C18: when the stream ends in the middle of a record, parse() returns an error and no
\* record list.
C18_MidRecordEofIsFatal ==
    parsed # None /\ EndsMidRecord => ParsedKind # "Ok" /\ Unwrap(parsed).gcov = None

----------------------------------------------------------------------------
(* The interner: the symbols handed out, and what iter() yields *)

\* the intern() calls that were the first for their string, in order
FirstCalls(strings) ==
    SelectSeq([i \in 1..Len(handed) |-> i],
              LAMBDA i : /\ handed[i].string \in strings
                         /\ \A j \in 1..(i - 1) : handed[j].string # handed[i].string)
\* the (symbol, string) pairs of those calls
FirstPairs(strings) ==
    LET calls == FirstCalls(strings)
    IN [k \in 1..Len(calls) |-> <<handed[calls[k]].symbol, handed[calls[k]].string>>]

\* C19: in every sequence of intern() calls, two calls return the same symbol exactly when
\* they were given the same string, and every symbol returned so far still resolves to the
\* string it was returned for.
C19_InternIdempotentInjectiveStable ==
    /\ \A i, j \in 1..Len(handed) :
          handed[i].string = handed[j].string <=> handed[i].symbol = handed[j].symbol
    /\ \A i \in 1..Len(handed) :
          Interner_index(interner, handed[i].symbol) = [panic |-> FALSE, str |-> handed[i].string]

\* a string was interned, then another, then the first again
C19_Witness ==
    /\ Len(handed) >= 3
    /\ handed[1].string # handed[2].string
    /\ handed[1].string = handed[3].string
    /\ handed[1].symbol # UNKNOWN_SYMBOL

\* C20 as stated: iter() yields the pair of every distinct string the caller interned, in
\* the order of first insertion, never symbol 0, and ends without failing; symbol 0
\* resolves to "<unknown>".
C20_IterYieldsEveryInterned ==
    /\ Interner_index(interner, UNKNOWN_SYMBOL) = [panic |-> FALSE, str |-> UNKNOWN_STRING]
    /\ yielded # None =>
          /\ ~Unwrap(yielded).panic
          /\ Unwrap(yielded).items = FirstPairs(InternStrings)
          /\ \A k \in 1..Len(Unwrap(yielded).items) : Unwrap(yielded).items[k][1] # UNKNOWN_SYMBOL

\* C20, amended: iter() yields the pair of every distinct string other than "<unknown>" the
\* caller interned, in the order of first insertion, never symbol 0, and ends without
\* failing; symbol 0 resolves to "<unknown>".
C20_IterYieldsEveryInternedButUnknown ==
    /\ Interner_index(interner, UNKNOWN_SYMBOL) = [panic |-> FALSE, str |-> UNKNOWN_STRING]
    /\ yielded # None =>
          /\ ~Unwrap(yielded).panic
          /\ Unwrap(yielded).items = FirstPairs(InternStrings \ {UNKNOWN_STRING})
          /\ \A k \in 1..Len(Unwrap(yielded).items) : Unwrap(yielded).items[k][1] # UNKNOWN_SYMBOL

\* iter() ran after the caller interned "<unknown>" between two other strings, one of them
\* twice
C20_Witness ==
    /\ yielded # None
    /\ Len(handed) >= 4
    /\ handed[2].string = UNKNOWN_STRING
    /\ handed[1].string # UNKNOWN_STRING
    /\ handed[3].string \notin {UNKNOWN_STRING, handed[1].string}
    /\ handed[4].string = handed[1].string
    /\ Len(Unwrap(yielded).items) = 2

\* the counts of the blocks and of the arcs of a graph, by index
CountsOf(g) ==
    <<[n \in 1..Len(g.nodes) |-> g.nodes[n].count], [e \in 1..Len(g.edges) |-> g.edges[e].count]>>

\* C21: merges with an analyze() between them, then analyze(), end with the block counts,
\* the arc counts and the report of the same merges followed by one analyze().
C21_EarlyAnalyzeHarmless ==
    (last.op = "compare" /\ ret.kind = "Reports") =>
        /\ CountsOf(graph) = CountsOf(alt)
        /\ ret.report[1] = ret.report[2]

\* an analyze() that ran step by step returns the graph that analyze(g) computes
SolveAgrees ==
    [][(solver.phase # "idle" /\ solver'.phase = "idle") =>
          /\ graph' = analyze(solver.start).graph
          /\ (ret'.kind = "Panic") = analyze(solver.start).panic]_vars

\* what one run of propagate_counts has done so far: no block's count was set twice and
\* no arc's count was resolved twice
AtMostOnce ==
    /\ \A n \in 1..Len(solver.sets) : solver.sets[n] <= 1
    /\ \A e \in 1..Len(solver.resolved) : solver.resolved[e] <= 1

\* C23: every run of propagate_counts ends (analyze() returns or panics), and while it
\* runs no block's count is set twice and no arc's count is resolved twice, whatever the
\* graph holds: cycles, self-loops, parallel arcs, blocks that cannot be resolved.
C23_PropagateTerminates ==
    /\ []AtMostOnce
    /\ (solver.phase # "idle") ~> (solver.phase = "idle")

\* a run is about to end on a graph with a self-loop and two parallel arcs, having set
\* a block's count and resolved an arc's count, with a block that it could not resolve
C23_Witness ==
    /\ solver.phase = "red"
    /\ solver.queue = <<>>
    /\ solver.green = {}
    /\ \E n \in 1..Len(solver.sets) : solver.sets[n] = 1
    /\ \E e \in 1..Len(solver.resolved) : solver.resolved[e] = 1
    /\ \E n \in 1..Len(graph.nodes) : graph.nodes[n].count = None
    /\ \E e \in 1..Len(graph.edges) : graph.edges[e].source = graph.edges[e].target
    /\ \E e, x \in 1..Len(graph.edges) :
        /\ e # x
        /\ graph.edges[e].source = graph.edges[x].source
        /\ graph.edges[e].target = graph.edges[x].target

\* the arcs of function position p, and those of them on the spanning tree
ArcsOf(g, p) == {e \in 1..Len(g.edges) : g.edges[e].index = p - 1}
TreeArcsOf(g, p) == {e \in ArcsOf(g, p) : "ON_TREE" \in g.edges[e].attr}
BlocksOf(g, p) == {g.functions[p].nodes[k] : k \in 1..Len(g.functions[p].nodes)}

\* the blocks joined to the set `seen` by arcs of T, taken in either direction, or by the
\* virtual arc between exit and entry
RECURSIVE Joined(_, _, _, _)
Joined(g, p, T, seen) ==
    LET virtual == {FunctionInfo_entry_block(g.functions[p]), ExitOf(g, p)}
        next == seen
                \cup {g.edges[e].target : e \in {x \in T : g.edges[x].source \in seen}}
                \cup {g.edges[e].source : e \in {x \in T : g.edges[x].target \in seen}}
                \cup (IF seen \cap virtual # {} THEN virtual ELSE {})
    IN IF next = seen THEN seen ELSE Joined(g, p, T, next)

\* the ON_TREE arcs of function position p and the virtual arc from exit to entry form a
\* spanning tree of its blocks: they join all blocks, and are one fewer than the blocks
SpanningTree(g, p) ==
    /\ Len(g.functions[p].nodes) >= 2
    /\ Cardinality(TreeArcsOf(g, p)) + 1 = Cardinality(BlocksOf(g, p)) - 1
    /\ Joined(g, p, TreeArcsOf(g, p), {FunctionInfo_entry_block(g.functions[p])}) = BlocksOf(g, p)

\* the sum of t over a set of arcs
RECURSIVE SumOf(_, _)
SumOf(t, E) == IF E = {} THEN 0
               ELSE LET e == CHOOSE x \in E : TRUE IN t[e] + SumOf(t, E \ {e})

\* the counts t of the arcs of function position p are a flow: what enters a block leaves
\* it, and what leaves the entry block enters the exit block
IsFlow(g, p, t) ==
    /\ \A ni \in BlocksOf(g, p) \ {FunctionInfo_entry_block(g.functions[p]), ExitOf(g, p)} :
        SumOf(t, ArcsInto(g, ni)) = SumOf(t, ArcsOutOf(g, ni))
    /\ SumOf(t, ArcsOutOf(g, FunctionInfo_entry_block(g.functions[p])))
         - SumOf(t, ArcsInto(g, FunctionInfo_entry_block(g.functions[p])))
       = SumOf(t, ArcsInto(g, ExitOf(g, p))) - SumOf(t, ArcsOutOf(g, ExitOf(g, p)))

\* the counts recorded on the real arcs of function position p come from a conserved
\* flow: some counts of the tree arcs complete them to a flow
ConservedFlow(g, p) ==
    LET real == ArcsOf(g, p) \ TreeArcsOf(g, p)
        most == SumOver(g, real)
    IN \E tree \in [TreeArcsOf(g, p) -> 0..most] :
          IsFlow(g, p, [e \in ArcsOf(g, p) |-> IF e \in real THEN ShownArc(g, e) ELSE tree[e]])

\* every block and arc of function position p has a count, and each block's count is the
\* sum of the counts of its incoming arcs (but for the entry) and of its outgoing arcs (but
\* for the exit)
FlowBalance(g, p) ==
    /\ \A e \in ArcsOf(g, p) : IsSome(g.edges[e].count)
    /\ \A ni \in BlocksOf(g, p) :
        /\ IsSome(g.nodes[ni + 1].count)
        /\ ni # FunctionInfo_entry_block(g.functions[p]) =>
              Unwrap(g.nodes[ni + 1].count) = SumOver(g, ArcsInto(g, ni))
        /\ ni # ExitOf(g, p) =>
              Unwrap(g.nodes[ni + 1].count) = SumOver(g, ArcsOutOf(g, ni))

\* C22: after analyze(), every function whose ON_TREE arcs and virtual exit-to-entry arc
\* form a spanning tree and whose recorded real-arc counts come from a conserved flow has
\* count = incoming = outgoing at each inner block, count = outgoing at the entry block
\* and count = incoming at the exit block.
C22_FlowBalanceAfterAnalyze ==
    (solver.phase = "idle" /\ last.op = "analyze" /\ ret.kind = "Ok") =>
        \A p \in 1..Len(graph.functions) :
            (SpanningTree(graph, p) /\ ConservedFlow(graph, p)) => FlowBalance(graph, p)

\* C22 for the first analyze() of a graph alone
FirstAnalyzeBalances ==
    [][(solver.phase # "idle" /\ solver'.phase = "idle" /\ ~analyzed /\ ret'.kind = "Ok") =>
          \A p \in 1..Len(graph'.functions) :
              (SpanningTree(graph', p) /\ ConservedFlow(graph', p)) => FlowBalance(graph', p)]_vars

\* the arcs of a list of Arcs records, in record order, each with its source block
RECURSIVE FlatArcs(_)
FlatArcs(arcss) ==
    IF arcss = <<>> THEN <<>>
    ELSE [k \in 1..Len(arcss[1].arcs) |->
             [src_block |-> arcss[1].src_block, dest_block |-> arcss[1].arcs[k].dest_block,
              flags |-> arcss[1].arcs[k].flags]]
         \o FlatArcs(Tail(arcss))

\* the arcs of function position p, in insertion order
EdgesOfFunction(g, p) ==
    SelectSeq(Ascending(Len(g.edges)), LAMBDA e : g.edges[e + 1].index = p)

\* the function that the notes index entry names was built from the entry's records: one
\* node per block, in order, and one edge per arc, in order, between the nodes of the
\* arc's blocks and with the arc's flags
BuiltFrom(g, entry) ==
    LET function == g.functions[entry.val + 1]
        arcs == FlatArcs(entry.key.arcs)
        edges == EdgesOfFunction(g, entry.val)
    IN /\ Len(function.nodes) = Len(entry.key.blocks)
       /\ \A k \in 1..Len(function.nodes) :
            /\ g.nodes[function.nodes[k] + 1].index = entry.val
            /\ g.nodes[function.nodes[k] + 1].block = k - 1
            /\ g.nodes[function.nodes[k] + 1].attr = entry.key.blocks[k]
            /\ k > 1 => function.nodes[k] = function.nodes[k - 1] + 1
       /\ Len(edges) = Len(arcs)
       /\ \A k \in 1..Len(edges) :
            /\ g.edges[edges[k] + 1].source = function.nodes[arcs[k].src_block + 1]
            /\ g.edges[edges[k] + 1].target = function.nodes[arcs[k].dest_block + 1]
            /\ g.edges[edges[k] + 1].attr = arcs[k].flags

\* C24: before analyze(), after a notes merge and any data merges, every function has
\* one node per block in order and one edge per arc, an arc has no count if and only if
\* it has ON_TREE, and the function's real-arc list is its non-ON_TREE arcs in insertion
\* order.
C24_RealArcsAreTheCountedArcs ==
    (~analyzed /\ ret.kind # "Panic") =>
        /\ \A entry \in graph.gcno_index : BuiltFrom(graph, entry)
        /\ {entry.val : entry \in graph.gcno_index} = {p - 1 : p \in 1..Len(graph.functions)}
        /\ \A e \in 1..Len(graph.edges) :
              (graph.edges[e].count = None) <=> ("ON_TREE" \in graph.edges[e].attr)
        /\ \A p \in 1..Len(graph.functions) :
              graph.functions[p].arcs = RealArcsOf(graph, p - 1)

\* a function with a tree arc and two real arcs has taken counts from a data file and was
\* not analyzed
C24_Witness ==
    /\ ~analyzed
    /\ ret.kind = "Ok"
    /\ last.op = "merge"
    /\ last.file.ty = "Gcda"
    /\ \E p \in 1..Len(graph.functions) :
        /\ Len(graph.functions[p].arcs) >= 2
        /\ \E k \in 1..Len(graph.functions[p].arcs) :
              Positive(graph.edges[graph.functions[p].arcs[k] + 1].count)
        /\ \E e \in 1..Len(graph.edges) :
              graph.edges[e].index = p - 1 /\ graph.edges[e].count = None

\* C25: a block with no Lines record of its own has no line entries if no block before it
\* has a Lines record, and otherwise holds the one pair that iterating the entries of the
\* nearest such block yields last.
C25_InheritsLastPair ==
    \A entry \in graph.gcno_index :
        LET function == graph.functions[entry.val + 1]
            records == block_number_to_lines(entry.key.lines, 1, {})
        IN \A k \in 1..Len(function.nodes) :
            LET block == graph.nodes[function.nodes[k] + 1]
                before == {j \in MapKeys(records) : j < k - 1}
                nearest == CHOOSE j \in before : \A i \in before : i <= j
                pairs == iter_lines_from(MapGet(records, nearest), 1, UNKNOWN_SYMBOL)
            IN ~MapHas(records, k - 1) =>
                  IF before = {} THEN block.lines = <<>>
                  ELSE pairs # <<>> => BlockInfo_iter_lines(block) = <<pairs[Len(pairs)]>>

\* the Branch record of arc e: its count (0 if absent), its attributes and the first pair
\* of its destination block, (unknown, 0) if that block has none
BranchOf(g, e) ==
    LET pairs == BlockInfo_iter_lines(g.nodes[g.edges[e + 1].target + 1])
        first == IF pairs = <<>> THEN [filename |-> UNKNOWN_SYMBOL, line |-> 0] ELSE pairs[1]
    IN [count |-> ShownArc(g, e + 1), attr |-> g.edges[e + 1].attr,
        filename |-> first.filename, line |-> first.line, column |-> 0]

\* arc e goes to the exit block of its function with a recorded count of 0
ZeroIntoExit(g, e) ==
    /\ g.edges[e + 1].target = ExitOf(g, g.edges[e + 1].index + 1)
    /\ g.edges[e + 1].count = Some(0)

\* arc e is UNCONDITIONAL and is not the arc of a call that does not return
PlainUnconditional(g, e) ==
    "UNCONDITIONAL" \in g.edges[e + 1].attr /\ "CALL_NON_RETURN" \notin g.edges[e + 1].attr

\* the blocks whose last pair is (filename, line), in node order
OriginBlocks(g, filename, line) ==
    SelectSeq(Ascending(Len(g.nodes)),
              LAMBDA ni : LET pairs == BlockInfo_iter_lines(g.nodes[ni + 1])
                          IN /\ pairs # <<>>
                             /\ pairs[Len(pairs)] = [filename |-> filename, line |-> line])

\* the Branch records of the arcs leaving the blocks `origins`, block by block, each
\* block's arcs newest first; left out are the zero arcs into the exit block and, unless
\* `every`, the plain unconditional arcs
RECURSIVE BranchesFrom(_, _, _)
BranchesFrom(g, origins, every) ==
    IF origins = <<>> THEN <<>>
    ELSE LET kept == SelectSeq(EdgesDirected(g.edges, origins[1], "Outgoing"),
                               LAMBDA e : /\ ~ZeroIntoExit(g, e)
                                          /\ every \/ ~PlainUnconditional(g, e))
         IN [k \in 1..Len(kept) |-> BranchOf(g, kept[k])] \o BranchesFrom(g, Tail(origins), every)

\* every block with a pair has its last pair as a line of the report, and every line of
\* the report holds the branches of the blocks it is the last pair of
BranchesReported(r, g, every) ==
    /\ \A n \in 1..Len(g.nodes) :
          LET pairs == BlockInfo_iter_lines(g.nodes[n]) IN
          pairs # <<>> =>
              \E f \in r.files : \E l \in f.val.lines :
                  f.key = pairs[Len(pairs)].filename /\ l.key = pairs[Len(pairs)].line
    /\ \A f \in r.files : \A l \in f.val.lines :
          l.val.branches = BranchesFrom(g, OriginBlocks(g, f.key, l.key), every)

\* C26 as stated: the line of a block's last pair holds one Branch for each outgoing arc
\* of the block but the zero arcs into the exit block, with the arc's count and
\* attributes and the first pair of the destination block, or (unknown, 0).
C26_BranchPerOutgoingArc ==
    (last.op = "report" /\ ret.kind = "Report") => BranchesReported(ret.report, graph, TRUE)

\* C26 amended: the same, and an arc that is UNCONDITIONAL and not CALL_NON_RETURN has
\* no Branch either.
C26_BranchPerConditionalArc ==
    (last.op = "report" /\ ret.kind = "Report") => BranchesReported(ret.report, graph, FALSE)

\* the report of an analyzed graph holds a line with two branches, leaves out an
\* unconditional arc and a zero arc into the exit block, and shows a branch to a block
\* without lines
C26_Witness ==
    /\ last.op = "report"
    /\ ret.kind = "Report"
    /\ analyzed
    /\ \E f \in ret.report.files : \E l \in f.val.lines :
          /\ Len(l.val.branches) >= 2
          /\ \E k \in 1..Len(l.val.branches) : l.val.branches[k].count > 0
    /\ \E f \in ret.report.files : \E l \in f.val.lines : \E k \in 1..Len(l.val.branches) :
          l.val.branches[k].filename = UNKNOWN_SYMBOL /\ l.val.branches[k].line = 0
    /\ \E e \in 1..Len(graph.edges) :
          /\ BlockInfo_iter_lines(graph.nodes[graph.edges[e].source + 1]) # <<>>
          /\ PlainUnconditional(graph, e - 1)
    /\ \E e \in 1..Len(graph.edges) :
          /\ BlockInfo_iter_lines(graph.nodes[graph.edges[e].source + 1]) # <<>>
          /\ ZeroIntoExit(graph, e - 1)
          /\ ~PlainUnconditional(graph, e - 1)

\* block ni is not an entry block and has a FAKE outgoing arc
CallSite(g, ni) == ~BlockInfo_is_entry_block(g.nodes[ni + 1]) /\ OutgoingFake(g, ni)

\* C27: after analyze(), a non-entry block has CALL_SITE if and only if it has a FAKE
\* outgoing arc, and those FAKE arcs have CALL_NON_RETURN; an arc has THROW if and only
\* if its source is such a block and the arc is neither FAKE nor FALLTHROUGH; a FAKE arc
\* leaving an entry block has NONLOCAL_RETURN and so has its target; an entry block has
\* no CALL_SITE and its arcs no THROW.
C27_CatchMarks ==
    (analyzed /\ last.op = "analyze" /\ ret.kind = "Ok") =>
        /\ \A n \in 1..Len(graph.nodes) :
              IF BlockInfo_is_entry_block(graph.nodes[n])
              THEN "CALL_SITE" \notin graph.nodes[n].attr
              ELSE ("CALL_SITE" \in graph.nodes[n].attr) <=> OutgoingFake(graph, n - 1)
        /\ \A e \in 1..Len(graph.edges) :
              LET arc == graph.edges[e]
                  source == graph.nodes[arc.source + 1]
              IN /\ ("THROW" \in arc.attr)
                      <=> (CallSite(graph, arc.source) /\ arc.attr \cap {"FAKE", "FALLTHROUGH"} = {})
                 /\ ("FAKE" \in arc.attr /\ ~BlockInfo_is_entry_block(source))
                      => "CALL_NON_RETURN" \in arc.attr
                 /\ ("FAKE" \in arc.attr /\ BlockInfo_is_entry_block(source))
                      => /\ "NONLOCAL_RETURN" \in arc.attr
                         /\ "NONLOCAL_RETURN" \in graph.nodes[arc.target + 1].attr
                 /\ BlockInfo_is_entry_block(source) => "THROW" \notin arc.attr

\* an analyzed graph with a call site that has a FAKE arc, a fall-through arc without
\* THROW and a third arc with THROW, and with an entry block that has a FAKE arc
C27_Witness ==
    /\ analyzed
    /\ last.op = "analyze"
    /\ ret.kind = "Ok"
    /\ \E e, x, y \in 1..Len(graph.edges) :
          /\ graph.edges[e].source = graph.edges[x].source
          /\ graph.edges[e].source = graph.edges[y].source
          /\ CallSite(graph, graph.edges[e].source)
          /\ "CALL_NON_RETURN" \in graph.edges[e].attr
          /\ "FALLTHROUGH" \in graph.edges[x].attr
          /\ "THROW" \notin graph.edges[x].attr
          /\ "THROW" \in graph.edges[y].attr
    /\ \E e \in 1..Len(graph.edges) :
          /\ BlockInfo_is_entry_block(graph.nodes[graph.edges[e].source + 1])
          /\ "FAKE" \in graph.edges[e].attr
          /\ "NONLOCAL_RETURN" \in graph.nodes[graph.edges[e].target + 1].attr

\* a data file with an ArcCounts record that no Function record precedes
CountsBeforeFunction(gcov) ==
    /\ gcov.ty = "Gcda"
    /\ \E i \in 1..Len(gcov.records) :
          /\ gcov.records[i].tag = "ArcCounts"
          /\ \A j \in 1..(i - 1) : gcov.records[j].tag # "Function"

\* function position p is selected by a Function record of the data file
SelectedBy(g, gcov, p) ==
    \E i \in 1..Len(gcov.records) :
        /\ gcov.records[i].tag = "Function"
        /\ MapHas(g.gcda_index,
                  GcdaFunctionIdentity_new(gcov.stamp, gcov.records[i].ident,
                                           gcov.records[i].function))
        /\ MapGet(g.gcda_index,
                  GcdaFunctionIdentity_new(gcov.stamp, gcov.records[i].ident,
                                           gcov.records[i].function)) = p

\* C28: a data merge changes counts only of functions that a Function record of the file
\* selects, and a data file with an ArcCounts record before any Function record makes
\* merge() return an error, without a panic, and leaves every count as it was.
C28_StrayCountsAreAnError ==
    [][(MergeStep /\ last'.file.ty = "Gcda") =>
          /\ \A e \in 1..Len(graph.edges) :
                graph'.edges[e].count # graph.edges[e].count
                    => SelectedBy(graph, last'.file, graph.edges[e].index)
          /\ CountsBeforeFunction(last'.file) =>
                /\ ret'.kind \notin {"Ok", "Panic"}
                /\ CountsOf(graph') = CountsOf(graph)]_vars

\* the functions of a notes file that the notes index of g already holds
KnownFunctions(g, gcno) ==
    LET fis == collect_fis(gcno.records, 1, <<>>).fis
    IN {fis[i] : i \in {k \in 1..Len(fis) : MapHas(g.gcno_index, fis[k].fi)}}

Integrity(g) ==
    /\ \A entry \in g.gcno_index \cup g.gcda_index : entry.val \in 0..(Len(g.functions) - 1)
    /\ \A p \in 1..Len(g.functions) :
          /\ Cardinality(BlocksOf(g, p)) = Len(g.functions[p].nodes)
          /\ \A q \in 1..Len(g.functions) : p # q => BlocksOf(g, p) \cap BlocksOf(g, q) = {}
          /\ \A ni \in BlocksOf(g, p) : g.nodes[ni + 1].index = p - 1
    /\ UNION {BlocksOf(g, p) : p \in 1..Len(g.functions)} = {n - 1 : n \in 1..Len(g.nodes)}
    /\ \A e \in 1..Len(g.edges) :
          /\ g.edges[e].index \in 0..(Len(g.functions) - 1)
          /\ g.edges[e].source \in BlocksOf(g, g.edges[e].index + 1)
          /\ g.edges[e].target \in BlocksOf(g, g.edges[e].index + 1)

\* what a call leaves in place: the node lists of the functions, and the function and
\* block number of every node
NodesStay(g, h) ==
    /\ Len(h.functions) >= Len(g.functions)
    /\ Len(h.nodes) >= Len(g.nodes)
    /\ \A p \in 1..Len(g.functions) : h.functions[p].nodes = g.functions[p].nodes
    /\ \A n \in 1..Len(g.nodes) :
          h.nodes[n].index = g.nodes[n].index /\ h.nodes[n].block = g.nodes[n].block

\* C30: through every sequence of merges and analyses the positions in both indices are
\* positions of functions, the functions' node lists are disjoint and cover the graph's
\* nodes, every arc joins two blocks of its own function, and a node keeps its index, its
\* function and its block number.
C30_StructuralIntegrity ==
    /\ [](ret.kind # "Panic" => Integrity(graph))
    /\ [][NodesStay(graph, graph')]_vars

\* a graph of two functions with entries in both indices was analyzed and then merged into
C30_Witness ==
    /\ analyzed
    /\ last.op = "merge"
    /\ ret.kind = "Ok"
    /\ Len(graph.functions) >= 2
    /\ Len(graph.edges) >= 4
    /\ Cardinality(graph.gcda_index) >= 2
    /\ Cardinality(graph.gcno_index) >= 2

====
